---- MODULE Spec2Model ----
(***************************************************************************)
(* The HTTP <-> RPC gateway of bytebase.v1.ProjectService                  *)
(* (proto/generated-go/v1/project_service.pb.gw.go).                       *)
(*                                                                         *)
(* One inbound HTTP request is followed from the mux (ServeHTTP) through   *)
(* the registered handler closure, the request_* / local_request_*         *)
(* function of the matched route, the service call and the encoder.        *)
(* The statement order, the early returns and the data (patterns, filters, *)
(* route table) are those of the generated file; what the grpc-gateway     *)
(* runtime does inside a call (matching, decoding, field population) is    *)
(* not part of that file and is modelled by its contract.                  *)
(***************************************************************************)
EXTENDS Integers, Sequences, FiniteSets, TLC

(* ------------------------------ bounds -------------------------------- *)

\* longest request path, in segments
MaxSegs == 4
\* most key/value pairs in a JSON body object
MaxKeys == 2
\* most parameters in a query string
MaxQuery == 1
\* most requests in flight at once
MaxInFlight == 2
\* most calls of RegisterProjectServiceHandlerFromEndpoint
MaxEndpoints == 2
\* most tables in the metadata of one schema
MaxTables == 2

(* ------------------------- the inbound request ------------------------ *)

Methods == {"GET", "POST", "PATCH", "DELETE", "PUT"}
Segments == {"v1", "projects", "my-proj"}
\* the text after the last ":" of the last path segment ("" when there is none)
Suffixes == {"", "undelete", "other"}
Modes == {"local", "remote"}

Paths == UNION {[1..n -> Segments] : n \in 0..MaxSegs}

\* A JSON member: a string value, or (sub # <<>>) a nested object of strings.
Member(k, v) == [key |-> k, val |-> v, sub |-> <<>>]
BodyMembers ==
  { Member("title", "New"), Member("title", "x"),
    Member("name", "projects/other"), Member("bogus", "x"),
    [key |-> "project", val |-> "", sub |-> <<[key |-> "title", val |-> "New"]>>] }

BodyObjects == UNION {[1..n -> BodyMembers] : n \in 0..MaxKeys}

\* What req.Body holds: a stream that fails, zero bytes, bytes that are no
\* JSON object, or a JSON object (members in the order they were written).
UnreadBody == [kind |-> "unread", obj |-> <<>>]
EmptyBody == [kind |-> "empty", obj |-> <<>>]
Bodies ==
  {[kind |-> k, obj |-> <<>>] : k \in {"unreadable", "empty", "malformed"}}
  \cup {[kind |-> "object", obj |-> o] : o \in BodyObjects}

\* A query parameter: a dotted field path and the raw value, as the characters
\* (tokens) of the text.
Param(p, r) == [path |-> p, raw |-> r]
QueryParams ==
  { Param(<<"update_mask">>, <<"title", ",", "owner">>),
    Param(<<"update_mask", "paths", "x">>, <<"title">>),
    Param(<<"project", "name">>, <<"projects/evil">>),
    Param(<<"project", "title">>, <<"Q">>),
    Param(<<"project">>, <<"Q">>),
    Param(<<"project_id">>, <<"pid">>),
    Param(<<"project_id", "x">>, <<"pid">>),
    Param(<<"page_size">>, <<"1", "0">>),
    Param(<<"page_size">>, <<"a", "b", "c">>),
    Param(<<"bogus">>, <<"x">>) }

\* one value per parameter name
QuerySets ==
  {Q \in SUBSET QueryParams :
     /\ Cardinality(Q) <= MaxQuery
     /\ \A a, b \in Q : a.path = b.path => a = b}

\* the query string of a URL: text that cannot be parsed, or parameters
NoQuery == [kind |-> "ok", params |-> {}]
Queries ==
  {[kind |-> "malformed", params |-> {}]}
  \cup {[kind |-> "ok", params |-> Q] : Q \in QuerySets}

(* ---------------------------- route table ----------------------------- *)

\* the opcodes that occur in the compiled patterns below
OpPush == 1
OpLitPush == 2
OpConcatN == 4
OpCapture == 5

\* (mutant) the pattern compiled without the OpConcatN that joins "projects"
\* and the wildcard segment
pattern_GetProject_NoConcat ==
  [ops |-> <<2, 0, 2, 1, 1, 0, 5, 2>>, pool |-> <<"v1", "projects", "name">>, verb |-> ""]
pattern_ProjectService_GetProject_0 ==
  [ops |-> <<2, 0, 2, 1, 1, 0, 4, 2, 5, 2>>, pool |-> <<"v1", "projects", "name">>, verb |-> ""]
pattern_ProjectService_ListProjects_0 ==
  [ops |-> <<2, 0, 2, 1>>, pool |-> <<"v1", "projects">>, verb |-> ""]
pattern_ProjectService_CreateProject_0 ==
  [ops |-> <<2, 0, 2, 1>>, pool |-> <<"v1", "projects">>, verb |-> ""]
pattern_ProjectService_UpdateProject_0 ==
  [ops |-> <<2, 0, 2, 1, 1, 0, 4, 2, 5, 2>>, pool |-> <<"v1", "projects", "project.name">>, verb |-> ""]
pattern_ProjectService_DeleteProject_0 ==
  [ops |-> <<2, 0, 2, 1, 1, 0, 4, 2, 5, 2>>, pool |-> <<"v1", "projects", "name">>, verb |-> ""]
pattern_ProjectService_UndeleteProject_0 ==
  [ops |-> <<2, 0, 2, 1, 1, 0, 4, 2, 5, 2>>, pool |-> <<"v1", "projects", "name">>, verb |-> "undelete"]

\* The query filters: the field paths a query parameter may not set (the
\* sequences held by the DoubleArray tries).
filter_ProjectService_ListProjects_0 == {}
filter_ProjectService_CreateProject_0 == {<<"project">>}
\* (mutant) a filter built without the body field and the path parameter
filter_UpdateProject_Empty == {}
\* (mutant) a filter that also excludes the update mask
filter_UpdateProject_WithMask == {<<"project">>, <<"project", "name">>, <<"update_mask">>}
filter_ProjectService_UpdateProject_0 == {<<"project">>, <<"project", "name">>}

\* (mutant) Delete registered under GET, next to Get
RouteTable_DeleteUnderGet ==
  << [op |-> "GetProject", method |-> "GET", pat |-> pattern_ProjectService_GetProject_0],
     [op |-> "ListProjects", method |-> "GET", pat |-> pattern_ProjectService_ListProjects_0],
     [op |-> "CreateProject", method |-> "POST", pat |-> pattern_ProjectService_CreateProject_0],
     [op |-> "UpdateProject", method |-> "PATCH", pat |-> pattern_ProjectService_UpdateProject_0],
     [op |-> "DeleteProject", method |-> "GET", pat |-> pattern_ProjectService_DeleteProject_0],
     [op |-> "UndeleteProject", method |-> "POST", pat |-> pattern_ProjectService_UndeleteProject_0] >>
\* mux.Handle calls of one Register function, in registration order
RouteTable ==
  << [op |-> "GetProject", method |-> "GET", pat |-> pattern_ProjectService_GetProject_0],
     [op |-> "ListProjects", method |-> "GET", pat |-> pattern_ProjectService_ListProjects_0],
     [op |-> "CreateProject", method |-> "POST", pat |-> pattern_ProjectService_CreateProject_0],
     [op |-> "UpdateProject", method |-> "PATCH", pat |-> pattern_ProjectService_UpdateProject_0],
     [op |-> "DeleteProject", method |-> "DELETE", pat |-> pattern_ProjectService_DeleteProject_0],
     [op |-> "UndeleteProject", method |-> "POST", pat |-> pattern_ProjectService_UndeleteProject_0] >>

Ops == {RouteTable[i].op : i \in 1..Len(RouteTable)}

(* --------------------------- path matching ---------------------------- *)

NoMatch == [ok |-> FALSE, params |-> <<>>]

RECURSIVE Join(_)
\* strings.Join(stack, "/")
Join(ss) ==
  IF Len(ss) = 0 THEN ""
  ELSE IF Len(ss) = 1 THEN ss[1]
  ELSE ss[1] \o "/" \o Join(Tail(ss))

\* The components a pattern is matched against: the ":verb" suffix is split
\* off the last segment only for a pattern that carries that verb; for any
\* other pattern it is part of the last segment.
Components(pat, segs, suffix) ==
  IF suffix = "" \/ Len(segs) = 0 \/ (pat.verb # "" /\ pat.verb = suffix) THEN segs
  ELSE [segs EXCEPT ![Len(segs)] = @ \o ":" \o suffix]

VerbOf(pat, suffix) == IF pat.verb # "" /\ pat.verb = suffix THEN suffix ELSE ""

RECURSIVE Exec(_, _, _, _, _, _)
\* The pattern's stack machine: op i of pat.ops over the components, pos
\* components consumed so far.
Exec(pat, comps, i, pos, stack, caps) ==
  IF 2 * i > Len(pat.ops)
  THEN IF pos < Len(comps) THEN NoMatch ELSE [ok |-> TRUE, params |-> caps]
  ELSE
    LET code == pat.ops[2 * i - 1]
        operand == pat.ops[2 * i]
    IN CASE code \in {OpPush, OpLitPush} ->
              IF pos >= Len(comps) THEN NoMatch
              ELSE IF code = OpLitPush /\ comps[pos + 1] # pat.pool[operand + 1] THEN NoMatch
              ELSE Exec(pat, comps, i + 1, pos + 1, Append(stack, comps[pos + 1]), caps)
         [] code = OpConcatN ->
              LET l == Len(stack) - operand
              IN Exec(pat, comps, i + 1, pos,
                      Append(SubSeq(stack, 1, l), Join(SubSeq(stack, l + 1, Len(stack)))), caps)
         [] code = OpCapture ->
              Exec(pat, comps, i + 1, pos, SubSeq(stack, 1, Len(stack) - 1),
                   (pat.pool[operand + 1] :> stack[Len(stack)]) @@ caps)
         [] OTHER -> Exec(pat, comps, i + 1, pos, stack, caps)

\* Pattern.Match: the captured path parameters, or NoMatch.
Match(pat, segs, suffix) ==
  IF pat.verb # VerbOf(pat, suffix) THEN NoMatch
  ELSE Exec(pat, Components(pat, segs, suffix), 1, 0, <<>>, <<>>)

\* The handlers of the mux for a method are tried in table order.
MatchingRoutes(method, segs, suffix) ==
  {i \in 1..Len(RouteTable) :
     RouteTable[i].method = method /\ Match(RouteTable[i].pat, segs, suffix).ok}

(* --------------------------- typed requests --------------------------- *)

\* The zero value of a request message (var protoReq XRequest). One record
\* shape serves the six request types; a field a type does not declare is
\* never written for it.
ZeroReq ==
  [name |-> "", project |-> [name |-> "", title |-> ""],
   update_mask |-> <<>>, project_id |-> "", page_size |-> 0]

\* declared string fields of the Project resource
ProjectFields == {"name", "title"}

\* The field paths of a request type that hold a plain value (no message).
ScalarPaths(op) ==
  CASE op \in {"GetProject", "DeleteProject", "UndeleteProject"} -> {<<"name">>}
    [] op = "ListProjects" -> {<<"page_size">>}
    [] op = "CreateProject" ->
         {<<"project", "name">>, <<"project", "title">>, <<"project_id">>}
    [] op = "UpdateProject" ->
         {<<"project", "name">>, <<"project", "title">>, <<"update_mask", "paths">>}

\* The field paths of a request type that hold a message.
MessagePaths(op) ==
  CASE op = "CreateProject" -> {<<"project">>}
    [] op = "UpdateProject" -> {<<"project">>, <<"update_mask">>}
    [] OTHER -> {}

IsPrefix(f, p) == Len(f) <= Len(p) /\ SubSeq(p, 1, Len(f)) = f

RECURSIVE Concat(_)
\* the text made of the tokens
Concat(raw) == IF Len(raw) = 0 THEN "" ELSE raw[1] \o Concat(Tail(raw))

Digits == {"0", "1", "2", "3", "4", "5", "6", "7", "8", "9"}
DigitVal(d) ==
  CASE d = "0" -> 0 [] d = "1" -> 1 [] d = "2" -> 2 [] d = "3" -> 3 [] d = "4" -> 4
    [] d = "5" -> 5 [] d = "6" -> 6 [] d = "7" -> 7 [] d = "8" -> 8 [] d = "9" -> 9

RECURSIVE ParseInt(_, _)
\* strconv.ParseInt of the text, acc the value of the digits read so far
ParseInt(raw, acc) ==
  IF Len(raw) = 0 THEN [ok |-> TRUE, val |-> acc]
  ELSE IF raw[1] \notin Digits THEN [ok |-> FALSE, val |-> 0]
  ELSE ParseInt(Tail(raw), 10 * acc + DigitVal(raw[1]))

RECURSIVE SplitComma(_, _)
\* strings.Split(text, ","), cur the tokens since the last comma
SplitComma(raw, cur) ==
  IF Len(raw) = 0 THEN <<Concat(cur)>>
  ELSE IF raw[1] = "," THEN <<Concat(cur)>> \o SplitComma(Tail(raw), <<>>)
  ELSE SplitComma(Tail(raw), Append(cur, raw[1]))

\* runtime.String: the value as it is, never an error
String(val) == [ok |-> TRUE, val |-> val]

\* The request with the scalar field at path p set to the parsed raw value.
SetScalar(r, p, raw) ==
  CASE p = <<"name">> -> [ok |-> TRUE, req |-> [r EXCEPT !.name = Concat(raw)]]
    [] p = <<"project", "name">> -> [ok |-> TRUE, req |-> [r EXCEPT !.project.name = Concat(raw)]]
    [] p = <<"project", "title">> -> [ok |-> TRUE, req |-> [r EXCEPT !.project.title = Concat(raw)]]
    [] p = <<"project_id">> -> [ok |-> TRUE, req |-> [r EXCEPT !.project_id = Concat(raw)]]
    [] p = <<"update_mask", "paths">> ->
         [ok |-> TRUE, req |-> [r EXCEPT !.update_mask = Append(@, Concat(raw))]]
    [] p = <<"page_size">> ->
         LET n == ParseInt(raw, 0)
         IN IF n.ok /\ Len(raw) > 0 THEN [ok |-> TRUE, req |-> [r EXCEPT !.page_size = n.val]]
            ELSE [ok |-> FALSE, req |-> r]

\* runtime.PopulateFieldFromPath: set the field at the dotted path p of the
\* request of type op from the raw text. An unknown field is left alone; a
\* path through a field that is no message, a message other than a field mask
\* given as text, or a value its field cannot parse is an error.
PopulateFieldFromPath(op, r, p, raw) ==
  IF p \in ScalarPaths(op) THEN SetScalar(r, p, raw)
  ELSE IF p = <<"update_mask">> /\ p \in MessagePaths(op)
  THEN [ok |-> TRUE, req |-> [r EXCEPT !.update_mask = SplitComma(raw, <<>>)]]
  ELSE IF p \in MessagePaths(op) THEN [ok |-> FALSE, req |-> r]
  ELSE IF \E f \in ScalarPaths(op) : IsPrefix(f, p) THEN [ok |-> FALSE, req |-> r]
  ELSE [ok |-> TRUE, req |-> r]

\* The first name of the dotted path p is no field of the request type of op.
NamesNoField(op, p) ==
  \A f \in ScalarPaths(op) \cup MessagePaths(op) : f[1] # p[1]

\* DoubleArray.HasCommonPrefix: some sequence of the filter is a prefix of p
HasCommonPrefix(filter, p) == \E f \in filter : IsPrefix(f, p)

RECURSIVE PopulateQueryParameters(_, _, _, _)
\* runtime.PopulateQueryParameters: every parameter the filter does not
\* exclude is populated; the first error ends it.
PopulateQueryParameters(op, r, params, filter) ==
  IF params = {} THEN [ok |-> TRUE, req |-> r]
  ELSE
    LET q == CHOOSE x \in params : TRUE
        rest == params \ {q}
    IN IF HasCommonPrefix(filter, q.path)
       THEN PopulateQueryParameters(op, r, rest, filter)
       ELSE LET one == PopulateFieldFromPath(op, r, q.path, q.raw)
            IN IF one.ok THEN PopulateQueryParameters(op, one.req, rest, filter)
               ELSE [ok |-> FALSE, req |-> r]

(* ----------------------------- body decode ---------------------------- *)

RECURSIVE DecodeProject(_, _)
\* The JSON object decoded onto a Project: a member that names a declared
\* field sets it (the last one wins), any other member is discarded.
DecodeProject(proj, obj) ==
  IF Len(obj) = 0 THEN proj
  ELSE
    LET m == obj[1]
        next == IF m.key \in ProjectFields /\ m.sub = <<>>
                THEN [proj EXCEPT ![m.key] = m.val] ELSE proj
    IN DecodeProject(next, Tail(obj))

RECURSIVE DecodeName(_, _)
\* The JSON object decoded onto a request whose only field is name.
DecodeName(r, obj) ==
  IF Len(obj) = 0 THEN r
  ELSE
    LET m == obj[1]
        next == IF m.key = "name" /\ m.sub = <<>> THEN [r EXCEPT !.name = m.val] ELSE r
    IN DecodeName(next, Tail(obj))

\* marshaler.NewDecoder(newReader()).Decode(target): err is "nil", "EOF" (no
\* byte was read) or "error".
Decode(target, r, body) ==
  CASE body.kind = "empty" -> [err |-> "EOF", req |-> r]
    [] body.kind = "object" ->
         [err |-> "nil",
          req |-> IF target = "project"
                  THEN [r EXCEPT !.project = DecodeProject(@, body.obj)]
                  ELSE DecodeName(r, body.obj)]
    [] OTHER -> [err |-> "error", req |-> r]

RECURSIVE MaskPaths(_, _)
\* One path per top-level key that is a declared field, in the order of the
\* body, a key that was seen before left out.
MaskPaths(obj, seen) ==
  IF Len(obj) = 0 THEN <<>>
  ELSE
    LET k == obj[1].key
    IN IF k \in ProjectFields /\ k \notin seen
       THEN <<k>> \o MaskPaths(Tail(obj), seen \cup {k})
       ELSE MaskPaths(Tail(obj), seen)

\* The body has a top-level key that the Project does not declare.
HasUnknownKey(body) ==
  \E i \in 1..Len(body.obj) : body.obj[i].key \notin ProjectFields

\* runtime.FieldMaskFromRequestBody(newReader(), protoReq.Project): the mask
\* of a body that was read again from its start.
FieldMaskFromRequestBody(body) ==
  IF body.kind = "object" THEN MaskPaths(body.obj, {}) ELSE <<>>

(* ------------------------ the request functions ----------------------- *)

\* The statements of each request function, in the order of its body. Each
\* one returns at the first statement that fails.
request_ProjectService_GetProject_0 == <<"path", "invoke">>
local_request_ProjectService_GetProject_0 == <<"path", "invoke">>
request_ProjectService_ListProjects_0 == <<"form", "query", "invoke">>
local_request_ProjectService_ListProjects_0 == <<"form", "query", "invoke">>
request_ProjectService_CreateProject_0 == <<"reader", "decode", "form", "query", "invoke">>
local_request_ProjectService_CreateProject_0 == <<"reader", "decode", "form", "query", "invoke">>
\* (mutant) the server-side function without the mask derivation
local_request_UpdateProject_NoMask ==
  <<"reader", "decode", "path", "form", "query", "invoke">>
\* (mutant) the path parameter bound before the mask is derived
request_UpdateProject_PathFirst ==
  <<"reader", "decode", "path", "mask", "form", "query", "invoke">>
request_ProjectService_UpdateProject_0 ==
  <<"reader", "decode", "mask", "path", "form", "query", "invoke">>
local_request_ProjectService_UpdateProject_0 ==
  <<"reader", "decode", "mask", "path", "form", "query", "invoke">>
\* (mutant) a Delete that decodes the body like the routes with a body
request_DeleteProject_ReadsBody == <<"reader", "decode", "path", "invoke">>
request_ProjectService_DeleteProject_0 == <<"path", "invoke">>
local_request_ProjectService_DeleteProject_0 == <<"path", "invoke">>
\* (mutant) an Undelete that binds the path before it decodes the body
request_UndeleteProject_PathFirst == <<"path", "reader", "decode", "invoke">>
request_ProjectService_UndeleteProject_0 == <<"reader", "decode", "path", "invoke">>
local_request_ProjectService_UndeleteProject_0 == <<"reader", "decode", "path", "invoke">>

\* The request function a handler closure calls.
RequestFunc(op, mode) ==
  CASE op = "GetProject" ->
         IF mode = "local" THEN local_request_ProjectService_GetProject_0
         ELSE request_ProjectService_GetProject_0
    [] op = "ListProjects" ->
         IF mode = "local" THEN local_request_ProjectService_ListProjects_0
         ELSE request_ProjectService_ListProjects_0
    [] op = "CreateProject" ->
         IF mode = "local" THEN local_request_ProjectService_CreateProject_0
         ELSE request_ProjectService_CreateProject_0
    [] op = "UpdateProject" ->
         IF mode = "local" THEN local_request_ProjectService_UpdateProject_0
         ELSE request_ProjectService_UpdateProject_0
    [] op = "DeleteProject" ->
         IF mode = "local" THEN local_request_ProjectService_DeleteProject_0
         ELSE request_ProjectService_DeleteProject_0
    [] op = "UndeleteProject" ->
         IF mode = "local" THEN local_request_ProjectService_UndeleteProject_0
         ELSE request_ProjectService_UndeleteProject_0

\* (mutant) every body decoded onto the whole request
DecodeTarget_WholeRequest(op) == "request"
\* Where Decode writes: &protoReq.Project, or &protoReq.
DecodeTarget(op) == IF op = "UndeleteProject" THEN "request" ELSE "project"

\* The key looked up in pathParams.
PathParamName(op) == IF op = "UpdateProject" THEN "project.name" ELSE "name"

\* The filter handed to PopulateQueryParameters.
FilterOf(op) ==
  CASE op = "ListProjects" -> filter_ProjectService_ListProjects_0
    [] op = "CreateProject" -> filter_ProjectService_CreateProject_0
    [] op = "UpdateProject" -> filter_ProjectService_UpdateProject_0
    [] OTHER -> {}

\* what the service operation returns: "OK" or the kind of its failure
ServiceOutcomes == {"OK", "NotFound", "Internal"}
\* every kind the error mapper has a row for, and one it has none for
ServiceCodes ==
  {"OK", "InvalidArgument", "NotFound", "AlreadyExists", "PermissionDenied",
   "Unauthenticated", "ResourceExhausted", "Unimplemented", "Internal", "Unknown"}

\* metadata.MD: a list of values per key
NoMD == <<>>
HeaderOfService == ("x-request-id" :> <<"r1">>)
TrailerOfService == ("x-cost" :> <<"c1">>)

\* What one call of the service operation gives back: the kind of its
\* outcome and the header and trailer metadata it set.
Result(c, h, t) == [code |-> c, header |-> h, trailer |-> t]
Pending == Result("pending", NoMD, NoMD)
\* outcomes without metadata
PlainResults == {Result(c, NoMD, NoMD) : c \in ServiceOutcomes}
\* every kind of outcome, and metadata on a success and on a failure
ServiceResults ==
  {Result(c, NoMD, NoMD) : c \in ServiceCodes}
  \cup {Result(c, h, t) : c \in {"OK", "NotFound"},
                          h \in {NoMD, HeaderOfService}, t \in {NoMD, TrailerOfService}}

\* metadata.Join: per key, the values of a followed by the values of b
metadata_Join(a, b) ==
  [k \in DOMAIN a \cup DOMAIN b |->
     (IF k \in DOMAIN a THEN a[k] ELSE <<>>) \o (IF k \in DOMAIN b THEN b[k] ELSE <<>>)]

\* The server metadata a context carries: none, or what
\* runtime.NewServerMetadataContext attached.
NoServerMetadata == [attached |-> FALSE, HeaderMD |-> NoMD, TrailerMD |-> NoMD]
NewServerMetadataContext(m) ==
  [attached |-> TRUE, HeaderMD |-> m.HeaderMD, TrailerMD |-> m.TrailerMD]

\* the number of a gRPC code (the "code" of the error body)
CodeNumber(c) ==
  CASE c = "OK" -> 0
    [] c = "Canceled" -> 1
    [] c = "Unknown" -> 2
    [] c = "InvalidArgument" -> 3
    [] c = "NotFound" -> 5
    [] c = "AlreadyExists" -> 6
    [] c = "PermissionDenied" -> 7
    [] c = "ResourceExhausted" -> 8
    [] c = "Unimplemented" -> 12
    [] c = "Internal" -> 13
    [] c = "Unauthenticated" -> 16

\* (mutant) the handler's context made from context.Background()
CtxParent_Background == "background"
\* context.WithCancel(req.Context()): the parent of the handler's ctx
CtxParent == "req"

\* runtime.HTTPStatusFromCode: the HTTP status of a failure kind
HTTPStatusFromCode(c) ==
  CASE c = "OK" -> 200
    [] c = "InvalidArgument" -> 400
    [] c = "Unauthenticated" -> 401
    [] c = "PermissionDenied" -> 403
    [] c = "NotFound" -> 404
    [] c = "AlreadyExists" -> 409
    [] c = "ResourceExhausted" -> 429
    [] c = "Unimplemented" -> 501
    [] OTHER -> 500

(* ------------------ a request function as a function ------------------ *)

\* The locals of one call of a request function: the typed request, the
\* parsed form, the error it returns and whether it reached the service call.
\* The inputs are the route, the captures, the body and the query string;
\* derivFails says how the mask derivation answers a key it does not know.
Locals(op, pp, body, query, derivFails) ==
  [op |-> op, pathParams |-> pp, body |-> body, query |-> query,
   derivFails |-> derivFails,
   protoReq |-> ZeroReq, form |-> {}, err |-> [code |-> "OK", origin |-> ""],
   invoked |-> FALSE]

\* the locals with the statement failed
Failed(b, stmt) == [b EXCEPT !.err = [code |-> "InvalidArgument", origin |-> stmt]]

\* One statement of a request function, run on the locals b.
Statement(stmt, b) ==
  CASE stmt = "reader" ->
         IF b.body.kind = "unreadable" THEN Failed(b, stmt) ELSE b
    [] stmt = "decode" ->
         LET d == Decode(DecodeTarget(b.op), b.protoReq, b.body)
         IN IF d.err # "nil" /\ d.err # "EOF" THEN Failed(b, stmt)
            ELSE [b EXCEPT !.protoReq = d.req]
    [] stmt = "mask" ->
         IF b.protoReq.update_mask # <<>> THEN b
         ELSE IF b.derivFails /\ HasUnknownKey(b.body) THEN Failed(b, stmt)
         ELSE [b EXCEPT !.protoReq.update_mask = FieldMaskFromRequestBody(b.body)]
    [] stmt = "path" ->
         LET key == PathParamName(b.op)
         IN IF key \notin DOMAIN b.pathParams THEN Failed(b, stmt)
            ELSE LET r == IF b.op = "UpdateProject"
                          THEN PopulateFieldFromPath(b.op, b.protoReq, <<"project", "name">>,
                                                     <<b.pathParams[key]>>)
                          ELSE LET v == String(b.pathParams[key])
                               IN [ok |-> v.ok, req |-> [b.protoReq EXCEPT !.name = v.val]]
                 IN IF r.ok THEN [b EXCEPT !.protoReq = r.req] ELSE Failed(b, stmt)
    [] stmt = "form" ->
         IF b.query.kind = "malformed" THEN Failed(b, stmt)
         ELSE [b EXCEPT !.form = b.query.params]
    [] stmt = "query" ->
         LET r == PopulateQueryParameters(b.op, b.protoReq, b.form, FilterOf(b.op))
         IN IF r.ok THEN [b EXCEPT !.protoReq = r.req] ELSE Failed(b, stmt)
    [] stmt = "invoke" -> [b EXCEPT !.invoked = TRUE]

RECURSIVE RunFrom(_, _, _)
\* The statements of f from the i-th on, up to the first that fails.
RunFrom(f, i, b) ==
  IF i > Len(f) \/ b.err.code # "OK" THEN b
  ELSE RunFrom(f, i + 1, Statement(f[i], b))

\* The request function of a route in a mode, run on the inputs of a request.
Bind(op, mode, pp, body, query, derivFails) ==
  RunFrom(RequestFunc(op, mode), 1, Locals(op, pp, body, query, derivFails))

(* ------------------------ schema metadata conversion ------------------- *)

Status == {"normal", "created", "dropped"}

\* The metadata the conversion is given. Of a column only the name is kept,
\* the other fields are copied as they are.
ColumnMetadata(n) == [name |-> n]
IndexMetadata(n, p, e) == [name |-> n, primary |-> p, expressions |-> e]
ForeignKeyMetadata(n, cols, rs, rt, rcols) ==
  [name |-> n, columns |-> cols, referencedSchema |-> rs, referencedTable |-> rt,
   referencedColumns |-> rcols]
\* ghost is what isGhostTable answers for the table
TableMetadata(n, g, cols, idx, fks) ==
  [name |-> n, ghost |-> g, columns |-> cols, indexes |-> idx, foreignKeys |-> fks]

\* The tables a schema is made of: a table with a plain index before two
\* primary ones and a key on itself; a table with keys into both schemas, to
\* a schema and to a table that do not exist, with column names it does not
\* have; a ghost table; a table whose name and column names occur twice.
TableChoices ==
  { TableMetadata("t", FALSE, <<ColumnMetadata("id"), ColumnMetadata("pid")>>,
      <<IndexMetadata("idx", FALSE, <<"pid">>), IndexMetadata("pk", TRUE, <<"id", "nope">>),
        IndexMetadata("pk2", TRUE, <<"pid">>)>>,
      <<ForeignKeyMetadata("fk_self", <<"pid">>, "public", "t", <<"id">>)>>),
    TableMetadata("u", FALSE, <<ColumnMetadata("id")>>, <<>>,
      <<ForeignKeyMetadata("fk_t", <<"id", "nope">>, "public", "t", <<"nope", "id">>),
        ForeignKeyMetadata("fk_x", <<"id">>, "x", "u", <<"id">>),
        ForeignKeyMetadata("fk_gone", <<"id">>, "gone", "t", <<"id">>),
        ForeignKeyMetadata("fk_ghost", <<"id">>, "public", "ghost", <<"id">>)>>),
    TableMetadata("ghost", TRUE, <<ColumnMetadata("id")>>,
      <<IndexMetadata("pk", TRUE, <<"id">>)>>,
      <<ForeignKeyMetadata("fk_t", <<"id">>, "public", "t", <<"id">>)>>),
    TableMetadata("t", FALSE, <<ColumnMetadata("pid"), ColumnMetadata("pid")>>,
      <<IndexMetadata("pk", TRUE, <<"pid">>)>>,
      <<ForeignKeyMetadata("fk_x", <<"pid">>, "x", "t", <<"pid">>)>>) }

TableLists == UNION {[1..n -> TableChoices] : n \in 0..MaxTables}
SchemaNames == {"public", "x"}
\* two schemas, of the same name or not
SchemaMetadataLists ==
  { <<[name |-> a, tables |-> ta], [name |-> b, tables |-> tb]>> :
      a \in SchemaNames, b \in SchemaNames, ta \in TableLists, tb \in TableLists }

\* What isGhostTable of @/utils answers.
isGhostTable(tableMetadata) == tableMetadata.ghost

\* uuidv1(): an id no other call gives. The id is the place of the call: the
\* id u of the enclosing object and the position n of the object made.
uuidv1(u, n) == Append(u, n)

\* Array.prototype.find by name: the position of the first element of the
\* list with the name, 0 when there is none.
Find(list, name) ==
  LET S == {i \in 1..Len(list) : list[i].name = name}
  IN IF S = {} THEN 0 ELSE CHOOSE i \in S : \A j \in S : i <= j

RECURSIVE IdsOf(_, _)
\* for each name in turn, the id of the column found for it, a name that no
\* column has skipped
IdsOf(columnList, names) ==
  IF names = <<>> THEN <<>>
  ELSE LET k == Find(columnList, Head(names))
       IN (IF k = 0 THEN <<>> ELSE <<columnList[k].id>>) \o IdsOf(columnList, Tail(names))

convertColumnMetadataToColumn(columnMetadata, status, id) ==
  [id |-> id, name |-> columnMetadata.name, status |-> status]

\* The primary key of a table: name and columns of the first index marked
\* primary, the loop ending there.
primaryKey(columnList, indexes) ==
  LET P == {n \in 1..Len(indexes) : indexes[n].primary}
  IN IF P = {} THEN [name |-> "", columnIdList |-> <<>>]
     ELSE LET n == CHOOSE n \in P : \A m \in P : n <= m
          IN [name |-> indexes[n].name,
              columnIdList |-> IdsOf(columnList, indexes[n].expressions)]

convertTableMetadataToTable(tableMetadata, status, id) ==
  LET columnList ==
        [k \in 1..Len(tableMetadata.columns) |->
           convertColumnMetadataToColumn(tableMetadata.columns[k], status, uuidv1(id, k))]
  IN [id |-> id, name |-> tableMetadata.name, columnList |-> columnList,
      primaryKey |-> primaryKey(columnList, tableMetadata.indexes),
      foreignKeyList |-> <<>>, status |-> status]

RECURSIVE tableList_WithGhosts(_, _, _, _)
\* (mutant) the loop over the tables without the ghost test
tableList_WithGhosts(tables, j, status, id) ==
  IF j > Len(tables) THEN <<>>
  ELSE <<convertTableMetadataToTable(tables[j], status, uuidv1(id, j))>>
       \o tableList_WithGhosts(tables, j + 1, status, id)

RECURSIVE tableList(_, _, _, _)
\* The loop over schemaMetadata.tables from the j-th table on: a ghost table
\* is passed over, any other is converted and pushed.
tableList(tables, j, status, id) ==
  IF j > Len(tables) THEN <<>>
  ELSE (IF isGhostTable(tables[j]) THEN <<>>
        ELSE <<convertTableMetadataToTable(tables[j], status, uuidv1(id, j))>>)
       \o tableList(tables, j + 1, status, id)

convertSchemaMetadataToSchema(schemaMetadata, status, id) ==
  [id |-> id, name |-> schemaMetadata.name,
   tableList |-> tableList(schemaMetadata.tables, 1, status, id), status |-> status]

\* the foreign key built for the metadata m of a key of the table, given the
\* places rs and rt of the referenced schema and table
ForeignKey(schemaList, table, m, rs, rt) ==
  [name |-> m.name, tableId |-> table.id,
   columnIdList |-> IdsOf(table.columnList, m.columns),
   referencedSchemaId |-> schemaList[rs].id,
   referencedTableId |-> schemaList[rs].tableList[rt].id,
   referencedColumnIdList |-> IdsOf(schemaList[rs].tableList[rt].columnList, m.referencedColumns)]

RECURSIVE foreignKeyList_Dangling(_, _, _)
\* (mutant) a key whose referenced table is not found refers to the first
\* table of the first schema that has one
foreignKeyList_Dangling(schemaList, table, fks) ==
  IF fks = <<>> THEN <<>>
  ELSE LET m == Head(fks)
           rs == Find(schemaList, m.referencedSchema)
           rt == IF rs = 0 THEN 0 ELSE Find(schemaList[rs].tableList, m.referencedTable)
           any == {i \in 1..Len(schemaList) : schemaList[i].tableList # <<>>}
       IN (IF rs = 0 \/ rt = 0
           THEN (IF any = {} THEN <<>>
                 ELSE <<[ForeignKey(schemaList, table, m, CHOOSE i \in any : TRUE, 1)
                          EXCEPT !.referencedTableId = <<0>>]>>)
           ELSE <<ForeignKey(schemaList, table, m, rs, rt)>>)
          \o foreignKeyList_Dangling(schemaList, table, Tail(fks))

RECURSIVE foreignKeyList(_, _, _)
\* The loop over tableMetadata.foreignKeys: a key whose referenced schema or
\* table is not found is passed over.
foreignKeyList(schemaList, table, fks) ==
  IF fks = <<>> THEN <<>>
  ELSE LET m == Head(fks)
           rs == Find(schemaList, m.referencedSchema)
           rt == IF rs = 0 THEN 0 ELSE Find(schemaList[rs].tableList, m.referencedTable)
       IN (IF rs = 0 \/ rt = 0 THEN <<>> ELSE <<ForeignKey(schemaList, table, m, rs, rt)>>)
          \o foreignKeyList(schemaList, table, Tail(fks))

RECURSIVE TablesLoop(_, _, _, _)
\* The loop over the tables of one schemaMetadata from the j-th on, s the
\* place of the schema found for it: the table found by name gets the keys.
TablesLoop(schemaList, s, tables, j) ==
  IF j > Len(tables) THEN schemaList
  ELSE LET t == Find(schemaList[s].tableList, tables[j].name)
       IN TablesLoop(
            IF t = 0 THEN schemaList
            ELSE [schemaList EXCEPT ![s].tableList[t].foreignKeyList =
                    foreignKeyList(schemaList, schemaList[s].tableList[t], tables[j].foreignKeys)],
            s, tables, j + 1)

RECURSIVE SchemasLoop(_, _, _)
\* The loop over schemaMetadataList from the i-th schema on.
SchemasLoop(schemaList, schemaMetadataList, i) ==
  IF i > Len(schemaMetadataList) THEN schemaList
  ELSE LET s == Find(schemaList, schemaMetadataList[i].name)
       IN SchemasLoop(
            IF s = 0 THEN schemaList
            ELSE TablesLoop(schemaList, s, schemaMetadataList[i].tables, 1),
            schemaMetadataList, i + 1)

\* schemaMetadataList.map(convertSchemaMetadataToSchema)
ComposedSchemas(schemaMetadataList) ==
  [i \in 1..Len(schemaMetadataList) |->
     convertSchemaMetadataToSchema(schemaMetadataList[i], "normal", <<i>>)]

convertSchemaMetadataList(schemaMetadataList) ==
  SchemasLoop(ComposedSchemas(schemaMetadataList), schemaMetadataList, 1)

\* the editor before it is given metadata
NotOpened ==
  [pc |-> "closed", schemaMetadataList |-> <<>>, which |-> 0, status |-> "normal",
   schema |-> <<>>, schemaList |-> <<>>]

(* ------------------------------- state -------------------------------- *)

VARIABLES
  pc,          \* where the request is: idle, handler, request, await, respond, done
  req,         \* the inbound HTTP request, as far as it has been read
  route,       \* the operation of the matched route, or "none"
  pathParams,  \* the captures of the match
  ip,          \* the next statement of the request function
  protoReq,    \* the typed request being built
  steps,       \* the statements of the request function run so far
  err,         \* the error the request function or the service returned
  calls,       \* the service invocations made, with the request each was given
  out,         \* what was written to the client
  cancelled,   \* the cancel function of the handler's context has run
  env,         \* the environment of the request (see Inputs)
  readers,     \* the readers newReader() handed out, with what was read from each
  inbound,     \* req.Context() is done: the connection closed or timed out
  context,     \* the parent of ctx and of annotatedContext
  md,          \* the runtime.ServerMetadata of the request function
  stream,      \* the header and trailer of the handler's ServerTransportStream
  inflight,    \* the requests in flight at once (see NextConcurrent)
  table,       \* the route table those requests share
  endpoints,   \* the calls of RegisterProjectServiceHandlerFromEndpoint
  editor       \* the schema metadata given to the conversion, and its results

vars == <<pc, req, route, pathParams, ip, protoReq, steps, err, calls, out, cancelled,
          env, readers, inbound, context, md, stream, inflight, table, endpoints, editor>>

\* what one statement group leaves alone
conc == <<inflight, table, endpoints, editor>>
life == <<inbound, context, md, stream>>

\* The requests whose service call and response are followed in full: every
\* kind of service result with its metadata, and the inbound request going
\* away at any moment, for a body that is empty, malformed or {"title":"New"}
\* and a query string that is empty or malformed.
LifecycleBodies ==
  {EmptyBody, [kind |-> "malformed", obj |-> <<>>],
   [kind |-> "object", obj |-> <<Member("title", "New")>>]}
LifecycleQueries == {NoQuery, [kind |-> "malformed", params |-> {}]}

\* What a request can meet in an environment: the bodies, the query strings
\* and the results of the service call.
Inputs(e) ==
  IF e = "lifecycle"
  THEN [bodies |-> LifecycleBodies, queries |-> LifecycleQueries, results |-> ServiceResults]
  ELSE [bodies |-> Bodies, queries |-> Queries, results |-> PlainResults]

Nil == [code |-> "OK", origin |-> ""]

\* One call of RegisterProjectServiceHandlerFromEndpoint before it starts:
\* where it is, whether its ctx is done, the connection (none, open, closed),
\* how often conn.Close ran, the named result err, the routes it registered,
\* and the goroutine of its deferred function.
NotCalled ==
  [pc |-> "dial", ctxDone |-> FALSE, conn |-> "none", closes |-> 0, err |-> "nil",
   registered |-> 0, goroutine |-> "none"]
InvalidArgument(step) == [code |-> "InvalidArgument", origin |-> step]

Init ==
  /\ pc = "idle"
  /\ req = [method |-> "", segs |-> <<>>, suffix |-> "", mode |-> "",
            body |-> UnreadBody, query |-> NoQuery, form |-> {}]
  /\ route = "none"
  /\ pathParams = <<>>
  /\ ip = 0
  /\ protoReq = ZeroReq
  /\ steps = <<>>
  /\ err = Nil
  /\ calls = <<>>
  /\ out = <<>>
  /\ cancelled = FALSE
  /\ env = "every input"
  /\ readers = <<>>
  /\ inbound = FALSE
  /\ context = [ctx |-> "none", annotatedContext |-> "none"]
  /\ md = [HeaderMD |-> NoMD, TrailerMD |-> NoMD]
  /\ stream = [Header |-> NoMD, Trailer |-> NoMD]
  /\ inflight = <<>>
  /\ table = RouteTable
  /\ endpoints = [k \in 1..MaxEndpoints |-> NotCalled]
  /\ editor = NotOpened

\* the response the encoder writes for an outcome, given the server metadata
\* of the context it was handed
Response(k, c, o, m) ==
  [kind |-> k, code |-> c, origin |-> o,
   status |-> HTTPStatusFromCode(c), num |-> CodeNumber(c), md |-> m]

\* runtime.HTTPError(ctx, ...): one error response for e
HTTPError(c, e) == out' = Append(out, Response("error", e.code, e.origin, c))

\* runtime.ForwardResponseMessage(ctx, ...): one success response
ForwardResponseMessage(c) == out' = Append(out, Response("success", "OK", "service", c))

\* The mux takes a request: the first route of the table whose method and
\* pattern match gets it, and a request no route matches is answered NotFound.
ServeHTTP ==
  /\ pc = "idle"
  /\ \E method \in Methods, segs \in Paths, suffix \in Suffixes, mode \in Modes :
       /\ Len(segs) = 0 => suffix = ""
       /\ req' = [req EXCEPT !.method = method, !.segs = segs, !.suffix = suffix, !.mode = mode]
       /\ LET hits == MatchingRoutes(method, segs, suffix)
          IN IF hits = {}
             THEN /\ HTTPError(NoServerMetadata, [code |-> "NotFound", origin |-> "mux"])
                  /\ pc' = "done"
                  /\ UNCHANGED <<route, pathParams>>
             ELSE LET i == CHOOSE h \in hits : \A g \in hits : h <= g
                  IN /\ route' = RouteTable[i].op
                     /\ pathParams' = Match(RouteTable[i].pat, segs, suffix).params
                     /\ pc' = "handler"
                     /\ out' = out
  /\ UNCHANGED <<ip, protoReq, steps, err, calls, cancelled>>
  /\ UNCHANGED <<env, readers, life, conc>>

\* (mutant) a handler that returns after a failed annotation without cancel
Handler_ReturnWithoutCancel ==
  /\ pc = "handler"
  /\ \E q \in Inputs(env).queries, annotated \in BOOLEAN :
       /\ req' = [req EXCEPT !.query = q]
       /\ context' = [ctx |-> CtxParent, annotatedContext |-> IF annotated THEN "ctx" ELSE "none"]
       /\ IF annotated
          THEN /\ pc' = "request"
               /\ ip' = 1
               /\ UNCHANGED <<out, cancelled>>
          ELSE /\ HTTPError(NoServerMetadata, InvalidArgument("annotate"))
               /\ cancelled' = cancelled
               /\ pc' = "done"
               /\ ip' = ip
  /\ UNCHANGED <<route, pathParams, protoReq, steps, err, calls>>
  /\ UNCHANGED <<env, readers, inbound, md, stream, conc>>

\* The head of a handler closure, called with the request (its URL carries
\* the query string): the context is made and annotated; when the annotation
\* fails the error is written and the closure returns.
Handler ==
  /\ pc = "handler"
  /\ \E q \in Inputs(env).queries, annotated \in BOOLEAN :
       /\ req' = [req EXCEPT !.query = q]
       /\ context' = [ctx |-> CtxParent, annotatedContext |-> IF annotated THEN "ctx" ELSE "none"]
       /\ IF annotated
          THEN /\ pc' = "request"
               /\ ip' = 1
               /\ UNCHANGED <<out, cancelled>>
          ELSE /\ HTTPError(NoServerMetadata, InvalidArgument("annotate"))
               /\ cancelled' = TRUE
               /\ pc' = "done"
               /\ ip' = ip
  /\ UNCHANGED <<route, pathParams, protoReq, steps, err, calls>>
  /\ UNCHANGED <<env, readers, inbound, md, stream, conc>>

\* the request function is at statement s
At(s) == pc = "request" /\ RequestFunc(route, req.mode)[ip] = s

\* the statement succeeded: on to the next one
Proceed(s) == /\ steps' = Append(steps, s)
              /\ ip' = ip + 1
              /\ pc' = pc
              /\ err' = err

\* the statement failed: the function returns InvalidArgument
Fail(s) == /\ steps' = Append(steps, s)
           /\ err' = InvalidArgument(s)
           /\ pc' = "respond"
           /\ ip' = ip

\* utilities.IOReaderFactory(req.Body): the body is read to its end
NewReader ==
  /\ At("reader")
  /\ \E b \in Inputs(env).bodies :
       /\ req' = [req EXCEPT !.body = b]
       /\ IF b.kind = "unreadable" THEN Fail("reader") ELSE Proceed("reader")
  /\ UNCHANGED <<route, pathParams, protoReq, calls, out, cancelled>>
  /\ UNCHANGED <<env, readers, life, conc>>

\* (mutant) newReader() hands out the one stream of the body: a second
\* reader starts where the first one stopped
newReader_OneStream == [data |-> req.body, pos |-> IF readers = <<>> THEN "start" ELSE "end"]

\* newReader, the function utilities.IOReaderFactory(req.Body) returned after
\* it read the body to its end: every call gives a reader over all the bytes,
\* placed at their start.
newReader == [data |-> req.body, pos |-> "start"]

\* what a consumer gets that reads a reader to its end
ReadAll(r) == IF r.pos = "start" THEN r.data ELSE EmptyBody

\* the reader a consumer was given, and what it read from it
Consumed(who, r) == [by |-> who, pos |-> r.pos, read |-> ReadAll(r)]

\* (mutant) the error of Decode is dropped
DecodeBody_ErrorDropped ==
  /\ At("decode")
  /\ Proceed("decode")
  /\ protoReq' = Decode(DecodeTarget(route), protoReq, ReadAll(newReader)).req
  /\ readers' = Append(readers, Consumed("decode", newReader))
  /\ UNCHANGED <<req, route, pathParams, calls, out, cancelled>>
  /\ UNCHANGED <<env, life, conc>>

\* (mutant) end-of-stream is an error like any other
DecodeBody_EOFIsError ==
  /\ At("decode")
  /\ LET d == Decode(DecodeTarget(route), protoReq, ReadAll(newReader))
     IN IF d.err # "nil"
        THEN Fail("decode") /\ protoReq' = protoReq
        ELSE Proceed("decode") /\ protoReq' = d.req
  /\ readers' = Append(readers, Consumed("decode", newReader))
  /\ UNCHANGED <<req, route, pathParams, calls, out, cancelled>>
  /\ UNCHANGED <<env, life, conc>>

\* Decode of newReader() onto its target; end-of-stream is not an error
DecodeBody ==
  /\ At("decode")
  /\ LET d == Decode(DecodeTarget(route), protoReq, ReadAll(newReader))
     IN IF d.err # "nil" /\ d.err # "EOF"
        THEN Fail("decode") /\ protoReq' = protoReq
        ELSE Proceed("decode") /\ protoReq' = d.req
  /\ readers' = Append(readers, Consumed("decode", newReader))
  /\ UNCHANGED <<req, route, pathParams, calls, out, cancelled>>
  /\ UNCHANGED <<env, life, conc>>

\* The update mask is derived from newReader() when the request has none. The
\* derivation may report an error for a body with a key it does not know.
DeriveMask ==
  /\ At("mask")
  /\ IF protoReq.update_mask = <<>>
     THEN /\ \E failed \in {FALSE, HasUnknownKey(ReadAll(newReader))} :
               IF failed
               THEN Fail("mask") /\ protoReq' = protoReq
               ELSE /\ Proceed("mask")
                    /\ protoReq' = [protoReq EXCEPT
                         !.update_mask = FieldMaskFromRequestBody(ReadAll(newReader))]
          /\ readers' = Append(readers, Consumed("mask", newReader))
     ELSE Proceed("mask") /\ protoReq' = protoReq /\ readers' = readers
  /\ UNCHANGED <<req, route, pathParams, calls, out, cancelled>>
  /\ UNCHANGED <<env, life, conc>>

\* The path parameter is looked up and bound.
BindPath ==
  /\ At("path")
  /\ LET key == PathParamName(route)
     IN IF key \notin DOMAIN pathParams
        THEN Fail("path") /\ protoReq' = protoReq
        ELSE LET b == IF route = "UpdateProject"
                      THEN PopulateFieldFromPath(route, protoReq, <<"project", "name">>,
                                                 <<pathParams[key]>>)
                      ELSE LET v == String(pathParams[key])
                           IN [ok |-> v.ok, req |-> [protoReq EXCEPT !.name = v.val]]
             IN IF b.ok THEN Proceed("path") /\ protoReq' = b.req
                ELSE Fail("path") /\ protoReq' = protoReq
  /\ UNCHANGED <<req, route, pathParams, calls, out, cancelled>>
  /\ UNCHANGED <<env, readers, life, conc>>

\* req.ParseForm(): the query string is parsed into req.Form
ParseForm ==
  /\ At("form")
  /\ IF req.query.kind = "malformed"
     THEN Fail("form") /\ req' = req
     ELSE Proceed("form") /\ req' = [req EXCEPT !.form = req.query.params]
  /\ UNCHANGED <<route, pathParams, protoReq, calls, out, cancelled>>
  /\ UNCHANGED <<env, readers, life, conc>>

\* (mutant) a query parameter that names no field fails the request
PopulateQuery_UnknownRejected ==
  /\ At("query")
  /\ LET r == PopulateQueryParameters(route, protoReq, req.form, FilterOf(route))
     IN IF r.ok /\ \A q \in req.form : ~NamesNoField(route, q.path)
        THEN Proceed("query") /\ protoReq' = r.req
        ELSE Fail("query") /\ protoReq' = protoReq
  /\ UNCHANGED <<req, route, pathParams, calls, out, cancelled>>
  /\ UNCHANGED <<env, readers, life, conc>>

\* runtime.PopulateQueryParameters(&protoReq, req.Form, filter)
PopulateQuery ==
  /\ At("query")
  /\ LET r == PopulateQueryParameters(route, protoReq, req.form, FilterOf(route))
     IN IF r.ok THEN Proceed("query") /\ protoReq' = r.req
        ELSE Fail("query") /\ protoReq' = protoReq
  /\ UNCHANGED <<req, route, pathParams, calls, out, cancelled>>
  /\ UNCHANGED <<env, readers, life, conc>>

\* client.X(ctx, &protoReq, ...) or server.X(ctx, &protoReq)
Invoke ==
  /\ At("invoke")
  /\ calls' = Append(calls, [op |-> route, mode |-> req.mode, req |-> protoReq,
                             ctx |-> "annotatedContext", result |-> Pending])
  /\ steps' = Append(steps, "invoke")
  /\ pc' = "await"
  /\ UNCHANGED <<req, route, pathParams, ip, protoReq, err, out, cancelled>>
  /\ UNCHANGED <<env, readers, life, conc>>

\* (mutant) the request function wraps the failure of the call in an error of
\* its own
ServiceReturn_ErrorWrapped ==
  /\ pc = "await"
  /\ \E res \in Inputs(env).results :
       /\ err' = IF res.code = "OK" THEN Nil ELSE [code |-> "Internal", origin |-> "request"]
       /\ calls' = [calls EXCEPT ![Len(calls)].result = res]
       /\ IF req.mode = "remote"
          THEN /\ md' = [HeaderMD |-> res.header, TrailerMD |-> res.trailer]
               /\ stream' = stream
          ELSE /\ stream' = [Header |-> res.header, Trailer |-> res.trailer]
               /\ md' = md
  /\ pc' = "respond"
  /\ UNCHANGED <<req, route, pathParams, ip, protoReq, steps, out, cancelled>>
  /\ UNCHANGED <<env, readers, inbound, context, conc>>

\* (mutant) a failed call is made again
ServiceReturn_RetryOnError ==
  /\ pc = "await"
  /\ \E res \in Inputs(env).results :
       /\ err' = IF res.code = "OK" THEN Nil ELSE [code |-> res.code, origin |-> "service"]
       /\ calls' = [calls EXCEPT ![Len(calls)].result = res]
       /\ IF req.mode = "remote"
          THEN /\ md' = [HeaderMD |-> res.header, TrailerMD |-> res.trailer]
               /\ stream' = stream
          ELSE /\ stream' = [Header |-> res.header, Trailer |-> res.trailer]
               /\ md' = md
       /\ pc' = IF res.code # "OK" /\ Len(calls) < 2 THEN "request" ELSE "respond"
  /\ UNCHANGED <<req, route, pathParams, ip, protoReq, steps, out, cancelled>>
  /\ UNCHANGED <<env, readers, inbound, context, conc>>

\* The service operation returns, and the request function returns what it
\* returned. The metadata the operation set reaches the handler through the
\* call options grpc.Header/grpc.Trailer (client) or through the handler's
\* ServerTransportStream (server).
ServiceReturn ==
  /\ pc = "await"
  /\ \E res \in Inputs(env).results :
       /\ err' = IF res.code = "OK" THEN Nil ELSE [code |-> res.code, origin |-> "service"]
       /\ calls' = [calls EXCEPT ![Len(calls)].result = res]
       /\ IF req.mode = "remote"
          THEN /\ md' = [HeaderMD |-> res.header, TrailerMD |-> res.trailer]
               /\ stream' = stream
          ELSE /\ stream' = [Header |-> res.header, Trailer |-> res.trailer]
               /\ md' = md
  /\ pc' = "respond"
  /\ UNCHANGED <<req, route, pathParams, ip, protoReq, steps, out, cancelled>>
  /\ UNCHANGED <<env, readers, inbound, context, conc>>

\* (mutant) the return after HTTPError is missing
Respond_NoReturn ==
  /\ pc = "respond"
  /\ out' = IF err # Nil
            THEN <<Response("error", err.code, err.origin, NewServerMetadataContext(md)),
                   Response("success", "OK", "service", NewServerMetadataContext(md))>>
            ELSE <<Response("success", "OK", "service", NewServerMetadataContext(md))>>
  /\ cancelled' = TRUE
  /\ pc' = "done"
  /\ UNCHANGED <<req, route, pathParams, ip, protoReq, steps, err, calls>>
  /\ UNCHANGED <<env, readers, life, conc>>

\* (mutant) the handler attaches the metadata of the request function as it is
Joined_NoJoin == md

\* the metadata after the handler's metadata.Join (server handlers only)
Joined ==
  IF req.mode = "local"
  THEN [HeaderMD |-> metadata_Join(md.HeaderMD, stream.Header),
        TrailerMD |-> metadata_Join(md.TrailerMD, stream.Trailer)]
  ELSE md

\* (mutant) the handler writes an error of its own for a failed request
Respond_ErrorAsInternal ==
  /\ pc = "respond"
  /\ md' = Joined
  /\ IF err # Nil
     THEN HTTPError(NewServerMetadataContext(Joined), [code |-> "Internal", origin |-> err.origin])
     ELSE ForwardResponseMessage(NewServerMetadataContext(Joined))
  /\ cancelled' = TRUE
  /\ pc' = "done"
  /\ UNCHANGED <<req, route, pathParams, ip, protoReq, steps, err, calls>>
  /\ UNCHANGED <<env, readers, inbound, context, stream, conc>>

\* (mutant) the deferred cancel is missing
Respond_NoCancel ==
  /\ pc = "respond"
  /\ md' = Joined
  /\ IF err # Nil
     THEN HTTPError(NewServerMetadataContext(Joined), err)
     ELSE ForwardResponseMessage(NewServerMetadataContext(Joined))
  /\ cancelled' = cancelled
  /\ pc' = "done"
  /\ UNCHANGED <<req, route, pathParams, ip, protoReq, steps, err, calls>>
  /\ UNCHANGED <<env, readers, inbound, context, stream, conc>>

\* The tail of a handler closure: the metadata is joined (server handlers) and
\* attached to annotatedContext; the error of the request function is written,
\* or the response is forwarded; the deferred cancel runs.
Respond ==
  /\ pc = "respond"
  /\ md' = Joined
  /\ IF err # Nil
     THEN HTTPError(NewServerMetadataContext(Joined), err)
     ELSE ForwardResponseMessage(NewServerMetadataContext(Joined))
  /\ cancelled' = TRUE
  /\ pc' = "done"
  /\ UNCHANGED <<req, route, pathParams, ip, protoReq, steps, err, calls>>
  /\ UNCHANGED <<env, readers, inbound, context, stream, conc>>

RECURSIVE Done(_)
\* Whether a context is done. The request's context is done when the
\* connection is gone; ctx, made by context.WithCancel, when its cancel ran or
\* its parent is done; a context derived from another when that one is.
Done(c) ==
  CASE c = "req" -> inbound
    [] c = "ctx" -> cancelled \/ Done(context.ctx)
    [] c = "annotatedContext" -> Done(context.annotatedContext)
    [] OTHER -> FALSE

\* The client goes away, or the server's timeout for the request passes,
\* while the handler runs: req.Context() is done.
CancelInbound ==
  /\ pc \in {"handler", "request", "await", "respond"}
  /\ ~inbound
  /\ inbound' = TRUE
  /\ UNCHANGED <<pc, req, route, pathParams, ip, protoReq, steps, err, calls, out, cancelled>>
  /\ UNCHANGED <<env, readers, context, md, stream, conc>>

\* client.X(ctx, ...) returns before the reply when its context is done: the
\* request function returns the client's Canceled error. The operation itself
\* is left as it is. (server.X(ctx, ...) is a plain call: it returns when the
\* operation does, see ServiceReturn.)
AbandonCall ==
  /\ pc = "await"
  /\ req.mode = "remote"
  /\ Done(calls[Len(calls)].ctx)
  /\ err' = [code |-> "Canceled", origin |-> "client"]
  /\ pc' = "respond"
  /\ UNCHANGED <<req, route, pathParams, ip, protoReq, steps, calls, out, cancelled>>
  /\ UNCHANGED <<env, readers, life, conc>>

Next ==
  \/ ServeHTTP
  \/ Handler
  \/ NewReader
  \/ DecodeBody
  \/ DeriveMask
  \/ BindPath
  \/ ParseForm
  \/ PopulateQuery
  \/ Invoke
  \/ ServiceReturn
  \/ Respond

Spec == Init /\ [][Next]_vars

InitLifecycle ==
  /\ pc = "idle"
  /\ req = [method |-> "", segs |-> <<>>, suffix |-> "", mode |-> "",
            body |-> UnreadBody, query |-> NoQuery, form |-> {}]
  /\ route = "none"
  /\ pathParams = <<>>
  /\ ip = 0
  /\ protoReq = ZeroReq
  /\ steps = <<>>
  /\ err = Nil
  /\ calls = <<>>
  /\ out = <<>>
  /\ cancelled = FALSE
  /\ env = "lifecycle"
  /\ readers = <<>>
  /\ inbound = FALSE
  /\ context = [ctx |-> "none", annotatedContext |-> "none"]
  /\ md = [HeaderMD |-> NoMD, TrailerMD |-> NoMD]
  /\ stream = [Header |-> NoMD, Trailer |-> NoMD]
  /\ inflight = <<>>
  /\ table = RouteTable
  /\ endpoints = [k \in 1..MaxEndpoints |-> NotCalled]
  /\ editor = NotOpened

NextLifecycle ==
  \/ ServeHTTP
  \/ Handler
  \/ NewReader
  \/ DecodeBody
  \/ DeriveMask
  \/ BindPath
  \/ ParseForm
  \/ PopulateQuery
  \/ Invoke
  \/ ServiceReturn
  \/ AbandonCall
  \/ Respond
  \/ CancelInbound

\* The handler's own steps are taken when they can be: a client call whose
\* context is done returns, and a handler that has its result responds.
SpecLifecycle ==
  /\ InitLifecycle
  /\ [][NextLifecycle]_vars
  /\ WF_vars(AbandonCall)
  /\ WF_vars(Respond)

(* ------------------------ requests in flight at once ------------------ *)

\* The requests that are handled at once: two Updates with different bodies,
\* masks and modes, a Get, a Create with a query parameter, an Update whose
\* body is no JSON, and a request no route takes. Each comes with the result
\* its service call will give.
Arriving(method, segs, mode, body, query, result) ==
  [method |-> method, segs |-> segs, suffix |-> "", mode |-> mode,
   body |-> body, query |-> query, derivFails |-> FALSE, result |-> result]

ConcurrentRequests ==
  { Arriving("PATCH", <<"v1", "projects", "my-proj">>, "local",
             [kind |-> "object", obj |-> <<Member("title", "New")>>], NoQuery, "OK"),
    Arriving("PATCH", <<"v1", "projects", "other">>, "remote",
             [kind |-> "object", obj |-> <<Member("name", "projects/evil")>>],
             [kind |-> "ok", params |-> {Param(<<"update_mask">>, <<"title", ",", "owner">>)}],
             "NotFound"),
    Arriving("GET", <<"v1", "projects", "my-proj">>, "remote", UnreadBody, NoQuery, "OK"),
    Arriving("POST", <<"v1", "projects">>, "local",
             [kind |-> "object", obj |-> <<Member("title", "New")>>],
             [kind |-> "ok", params |-> {Param(<<"project_id">>, <<"pid">>)}], "Internal"),
    Arriving("PATCH", <<"v1", "projects", "my-proj">>, "remote",
             [kind |-> "malformed", obj |-> <<>>], NoQuery, "OK"),
    Arriving("PUT", <<"v1", "projects", "my-proj">>, "local", UnreadBody, NoQuery, "OK") }

\* the server metadata of a response when the service set none
EmptyServerMetadata == NewServerMetadataContext([HeaderMD |-> NoMD, TrailerMD |-> NoMD])

\* the routes of a table that take a request
RoutesIn(t, r) ==
  {i \in 1..Len(t) : t[i].method = r.method /\ Match(t[i].pat, r.segs, r.suffix).ok}

\* the first route of a table that takes a request
FirstRoute(t, r) == CHOOSE h \in RoutesIn(t, r) : \A g \in RoutesIn(t, r) : h <= g

\* the one variable of the dispatcher of a single request
single == <<pc, req, route, pathParams, ip, protoReq, steps, err, calls, out, cancelled,
            env, readers, life>>

\* The mux takes one more request while others are in flight and starts its
\* handler, with locals of its own.
Accept ==
  /\ Len(inflight) < MaxInFlight
  /\ \E r \in ConcurrentRequests :
       inflight' = Append(inflight,
         IF RoutesIn(table, r) = {}
         THEN [in |-> r, pc |-> "done", route |-> "none", ip |-> 0,
               b |-> Locals("none", <<>>, r.body, r.query, r.derivFails), call |-> <<>>,
               out |-> <<Response("error", "NotFound", "mux", NoServerMetadata)>>]
         ELSE LET e == table[FirstRoute(table, r)]
              IN [in |-> r, pc |-> "request", route |-> e.op, ip |-> 1,
                  b |-> Locals(e.op, Match(e.pat, r.segs, r.suffix).params,
                               r.body, r.query, r.derivFails),
                  call |-> <<>>, out |-> <<>>])
  /\ UNCHANGED <<table, single, endpoints, editor>>

\* (mutant) protoReq declared once at package level: every call of a request
\* function works on the same variable
Slot_PackageLevel(i) == 1

\* Where the typed request of the i-th request in flight is kept: protoReq is
\* declared inside the request function, so each call has its own.
Slot(i) == i

\* The handler of the i-th request in flight runs the next statement of its
\* request function.
Advance(i) ==
  /\ i \in DOMAIN inflight
  /\ inflight[i].pc = "request"
  /\ LET h == inflight[i]
         f == RequestFunc(h.route, h.in.mode)
         b == Statement(f[h.ip], [h.b EXCEPT !.protoReq = inflight[Slot(i)].b.protoReq])
         written == [inflight EXCEPT ![Slot(i)].b.protoReq = b.protoReq]
     IN inflight' =
          [written EXCEPT
             ![i].b = [b EXCEPT !.protoReq = written[i].b.protoReq],
             ![i].ip = h.ip + 1,
             ![i].call = IF b.invoked THEN <<[op |-> h.route, req |-> b.protoReq]>> ELSE <<>>,
             ![i].pc = IF b.err.code # "OK" THEN "respond"
                       ELSE IF b.invoked THEN "await" ELSE "request"]
  /\ UNCHANGED <<table, single, endpoints, editor>>

\* The service call of the i-th request in flight returns.
Complete(i) ==
  /\ i \in DOMAIN inflight
  /\ inflight[i].pc = "await"
  /\ inflight' =
       [inflight EXCEPT
          ![i].b.err = IF inflight[i].in.result = "OK" THEN Nil
                       ELSE [code |-> inflight[i].in.result, origin |-> "service"],
          ![i].pc = "respond"]
  /\ UNCHANGED <<table, single, endpoints, editor>>

\* The handler of the i-th request in flight writes its response.
Reply(i) ==
  /\ i \in DOMAIN inflight
  /\ inflight[i].pc = "respond"
  /\ LET e == inflight[i].b.err
     IN inflight' =
          [inflight EXCEPT
             ![i].out = <<IF e # Nil THEN Response("error", e.code, e.origin, EmptyServerMetadata)
                          ELSE Response("success", "OK", "service", EmptyServerMetadata)>>,
             ![i].pc = "done"]
  /\ UNCHANGED <<table, single, endpoints, editor>>

InitConcurrent == Init

NextConcurrent ==
  \/ Accept
  \/ \E i \in 1..MaxInFlight : Advance(i)
  \/ \E i \in 1..MaxInFlight : Complete(i)
  \/ \E i \in 1..MaxInFlight : Reply(i)

SpecConcurrent == InitConcurrent /\ [][NextConcurrent]_vars

(* ------------------- registration from an endpoint -------------------- *)

\* what the actions of a registration leave alone
dispatching == <<single, inflight, table, editor>>

\* the k-th call with some of its fields changed
With(k, e) == endpoints' = [endpoints EXCEPT ![k] = e]

\* conn, err := grpc.Dial(endpoint, opts...); a failed dial returns the error
Dial(k) ==
  /\ endpoints[k].pc = "dial"
  /\ \E dialed \in BOOLEAN :
       With(k, IF dialed
               THEN [endpoints[k] EXCEPT !.conn = "open", !.pc = "register"]
               ELSE [endpoints[k] EXCEPT !.err = "dial", !.pc = "returned"])
  /\ UNCHANGED dispatching

\* one mux.Handle call of RegisterProjectServiceHandlerClient
Handle(k) ==
  /\ endpoints[k].pc = "register"
  /\ endpoints[k].registered < Len(RouteTable)
  /\ With(k, [endpoints[k] EXCEPT !.registered = @ + 1])
  /\ UNCHANGED dispatching

\* RegisterProjectServiceHandlerClient returns nil after its last mux.Handle,
\* and the result is assigned to err
RegisterReturns(k) ==
  /\ endpoints[k].pc = "register"
  /\ endpoints[k].registered = Len(RouteTable)
  /\ With(k, [endpoints[k] EXCEPT !.err = "nil", !.pc = "deferred"])
  /\ UNCHANGED dispatching

\* (mutant) the deferred function closes the connection without waiting
Deferred_CloseAtOnce(k) ==
  /\ endpoints[k].pc = "deferred"
  /\ With(k, [endpoints[k] EXCEPT !.conn = "closed", !.closes = @ + 1, !.pc = "returned"])
  /\ UNCHANGED dispatching

\* The deferred function: an error closes the connection at once, no error
\* starts the goroutine that waits for ctx.Done().
Deferred(k) ==
  /\ endpoints[k].pc = "deferred"
  /\ With(k, IF endpoints[k].err # "nil"
             THEN [endpoints[k] EXCEPT !.conn = "closed", !.closes = @ + 1, !.pc = "returned"]
             ELSE [endpoints[k] EXCEPT !.goroutine = "waiting", !.pc = "returned"])
  /\ UNCHANGED dispatching

\* the goroutine: <-ctx.Done(), then conn.Close()
CloseOnDone(k) ==
  /\ endpoints[k].goroutine = "waiting"
  /\ endpoints[k].ctxDone
  /\ With(k, [endpoints[k] EXCEPT !.conn = "closed", !.closes = @ + 1, !.goroutine = "done"])
  /\ UNCHANGED dispatching

\* the caller cancels the ctx it gave, at any moment
CancelCtx(k) ==
  /\ ~endpoints[k].ctxDone
  /\ With(k, [endpoints[k] EXCEPT !.ctxDone = TRUE])
  /\ UNCHANGED dispatching

InitEndpoint == Init

NextEndpoint ==
  \E k \in 1..MaxEndpoints :
    \/ Dial(k)
    \/ Handle(k)
    \/ RegisterReturns(k)
    \/ Deferred(k)
    \/ CloseOnDone(k)
    \/ CancelCtx(k)

\* a goroutine that can run does run
SpecEndpoint ==
  InitEndpoint /\ [][NextEndpoint]_vars
  /\ \A k \in 1..MaxEndpoints : WF_vars(CloseOnDone(k))

(* --------------------------- the schema editor ------------------------- *)

\* what the conversion leaves alone
notEditor == <<single, inflight, table, endpoints>>

\* one schema of the metadata is converted with a status
ConvertSchema ==
  /\ editor.pc = "metadata"
  /\ \E i \in 1..Len(editor.schemaMetadataList), status \in Status :
       editor' = [editor EXCEPT
                    !.pc = "schema", !.which = i, !.status = status,
                    !.schema = convertSchemaMetadataToSchema(
                                 editor.schemaMetadataList[i], status, <<0>>)]
  /\ UNCHANGED notEditor

\* convertSchemaMetadataList, its first statement: the tables of each schema
ComposeTables ==
  /\ editor.pc = "metadata"
  /\ editor' = [editor EXCEPT !.pc = "composed",
                              !.schemaList = ComposedSchemas(editor.schemaMetadataList)]
  /\ UNCHANGED notEditor

\* convertSchemaMetadataList, its loop: the foreign keys; the list is returned
BuildForeignKeys ==
  /\ editor.pc = "composed"
  /\ editor' = [editor EXCEPT !.pc = "list",
                              !.schemaList = SchemasLoop(editor.schemaList,
                                                         editor.schemaMetadataList, 1)]
  /\ UNCHANGED notEditor

InitSchema ==
  /\ pc = "idle"
  /\ req = [method |-> "", segs |-> <<>>, suffix |-> "", mode |-> "",
            body |-> UnreadBody, query |-> NoQuery, form |-> {}]
  /\ route = "none"
  /\ pathParams = <<>>
  /\ ip = 0
  /\ protoReq = ZeroReq
  /\ steps = <<>>
  /\ err = Nil
  /\ calls = <<>>
  /\ out = <<>>
  /\ cancelled = FALSE
  /\ env = "every input"
  /\ readers = <<>>
  /\ inbound = FALSE
  /\ context = [ctx |-> "none", annotatedContext |-> "none"]
  /\ md = [HeaderMD |-> NoMD, TrailerMD |-> NoMD]
  /\ stream = [Header |-> NoMD, Trailer |-> NoMD]
  /\ inflight = <<>>
  /\ table = RouteTable
  /\ endpoints = [k \in 1..MaxEndpoints |-> NotCalled]
  /\ \E l \in SchemaMetadataLists :
       editor = [NotOpened EXCEPT !.pc = "metadata", !.schemaMetadataList = l]

NextSchema ==
  \/ ConvertSchema
  \/ ComposeTables
  \/ BuildForeignKeys

SpecSchema == InitSchema /\ [][NextSchema]_vars

(* ------------------------------- claims ------------------------------- *)

Range(f) == {f[i] : i \in DOMAIN f}

BindingSteps == {"reader", "decode", "mask", "path", "form", "query"}
BodyRoutes == {"CreateProject", "UpdateProject", "UndeleteProject"}

\* body decode, mask derivation, path binding, query binding, then the call
BindingOrder == <<"reader", "decode", "mask", "path", "form", "query", "invoke">>
OrderPos(s) == CHOOSE i \in 1..Len(BindingOrder) : BindingOrder[i] = s

MyProj == <<"v1", "projects", "my-proj">>

\* the caller gave the mask title,owner in the query string
ExplicitMask == Param(<<"update_mask">>, <<"title", ",", "owner">>) \in req.query.params
\* the query string names no field of the update mask
NoMaskInQuery ==
  req.query.kind = "ok" /\ \A q \in req.query.params : q.path[1] # "update_mask"

\* C1: on Update the statements run are a prefix of body decode, mask
\* derivation, path binding, query binding, call; on every route the statements
\* run keep that relative order; nothing runs after a statement that failed;
\* the service is called only after all of them, as the last statement.
C1_BindingOrder ==
  /\ route = "UpdateProject" => IsPrefix(steps, BindingOrder)
  /\ \A i, j \in DOMAIN steps : i < j => OrderPos(steps[i]) < OrderPos(steps[j])
  /\ err.origin \in BindingSteps => steps[Len(steps)] = err.origin
  /\ calls # <<>> =>
       /\ steps[Len(steps)] = "invoke"
       /\ err.origin \notin BindingSteps
       /\ route = "UpdateProject" => steps = BindingOrder
       /\ route = "CreateProject" => steps = <<"reader", "decode", "form", "query", "invoke">>
       /\ route = "UndeleteProject" => steps = <<"reader", "decode", "path", "invoke">>
       /\ route = "ListProjects" => steps = <<"form", "query", "invoke">>
       /\ route \in {"GetProject", "DeleteProject"} => steps = <<"path", "invoke">>

C1_Witness ==
  /\ pc = "done" /\ route = "UpdateProject" /\ req.mode = "remote"
  /\ steps = BindingOrder /\ Len(calls) = 1

\* a query parameter of the request that its type cannot take
BadParamInForm ==
  \/ route = "ListProjects" /\ Param(<<"page_size">>, <<"a", "b", "c">>) \in req.form
  \/ route = "CreateProject" /\ Param(<<"project_id", "x">>, <<"pid">>) \in req.form
  \/ route = "UpdateProject" /\ Param(<<"update_mask", "paths", "x">>, <<"title">>) \in req.form

\* C2: a binding or decoding step that fails ends the request function with
\* InvalidArgument before the service is called, and so does a failed
\* annotation: an unreadable body, a body that is no JSON, a failed mask
\* derivation, a query string that cannot be parsed, a query parameter that
\* cannot be populated; the one response is that error.
C2_BindingFailureNeverInvokes ==
  /\ err.origin \in BindingSteps => err.code = "InvalidArgument" /\ calls = <<>>
  /\ req.body.kind = "unreadable" => err = InvalidArgument("reader") /\ calls = <<>>
  /\ (req.body.kind = "malformed" /\ "decode" \in Range(steps)) =>
       err = InvalidArgument("decode") /\ calls = <<>>
  /\ (req.query.kind = "malformed" /\ "form" \in Range(steps)) =>
       err = InvalidArgument("form") /\ calls = <<>>
  /\ (BadParamInForm /\ "query" \in Range(steps)) =>
       err = InvalidArgument("query") /\ calls = <<>>
  /\ (pc = "done" /\ out # <<>> /\ out[1].origin \in BindingSteps \cup {"annotate"}) =>
       /\ calls = <<>>
       /\ Len(out) = 1
       /\ out[1].kind = "error" /\ out[1].code = "InvalidArgument"

C2_Witness ==
  /\ pc = "done" /\ route = "UpdateProject" /\ req.body.kind = "malformed"
  /\ err = InvalidArgument("decode") /\ calls = <<>> /\ Len(out) = 1

\* C3: a handled request writes exactly one response, at the end of the
\* handler: an error for a failure, a success for a successful call, never
\* both and never none.
C3_ExactlyOneResponse ==
  /\ Len(out) <= 1
  /\ pc = "done" <=> Len(out) = 1
  /\ (pc = "done" /\ route # "none") =>
       (out[1].kind = "success" <=> (Len(calls) = 1 /\ err = Nil))
  /\ (pc = "done" /\ err # Nil) =>
       (out[1].kind = "error" /\ out[1].code = err.code /\ out[1].origin = err.origin)

C3_Witness ==
  /\ pc = "done" /\ route = "UpdateProject" /\ err.origin = "service"
  /\ Len(out) = 1 /\ out[1].kind = "error"
  /\ out[1].code = "NotFound" /\ out[1].origin = "service"

DerivationRuns == At("mask") /\ protoReq.update_mask = <<>>

\* C6 (as claimed): an Update whose caller gave an explicit mask does not run
\* the mask derivation, which therefore cannot fail the request.
C6_DerivationSkipped ==
  (route = "UpdateProject" /\ ExplicitMask) =>
    (~DerivationRuns /\ err.origin # "mask")

WrappedBody ==
  [kind |-> "object",
   obj |-> <<[key |-> "project", val |-> "", sub |-> <<[key |-> "title", val |-> "New"]>>]>>]
TitleBody == [kind |-> "object", obj |-> <<Member("title", "New")>>]

\* the request Update was called with has the name of the path, the title
\* New and the mask title
BoundAsClaimed(r) ==
  /\ r.project.name = "projects/my-proj"
  /\ r.project.title = "New"
  /\ r.update_mask = <<"title">>

\* C7 (as claimed): PATCH /v1/projects/my-proj with the body
\* {"project":{"title":"New"}} and no mask calls Update with project.name =
\* projects/my-proj, project.title = New and the mask [title].
C7_WrappedBodyBound ==
  (/\ Len(calls) = 1 /\ route = "UpdateProject"
   /\ req.segs = MyProj /\ req.suffix = ""
   /\ req.body = WrappedBody /\ NoMaskInQuery) => BoundAsClaimed(calls[1].req)

\* C7 (amended): PATCH /v1/projects/my-proj with the body {"title":"New"}, the
\* resource itself, and no mask calls Update with project.name =
\* projects/my-proj, project.title = New and the mask [title].
C7_ResourceBodyBound ==
  (/\ Len(calls) = 1 /\ route = "UpdateProject"
   /\ req.segs = MyProj /\ req.suffix = ""
   /\ req.body = TitleBody /\ NoMaskInQuery) => BoundAsClaimed(calls[1].req)

C7_Witness ==
  /\ Len(calls) = 1 /\ route = "UpdateProject"
  /\ req.segs = MyProj /\ req.suffix = ""
  /\ req.body = TitleBody /\ NoMaskInQuery
  /\ BoundAsClaimed(calls[1].req)

\* C8: on Create, Update and Undelete a zero-length body is no error: after
\* the decode the request is at its zero value and the function goes on, and
\* with nothing wrong in the query string the service is called; Undelete of
\* /v1/projects/my-proj with an empty body is called with name =
\* projects/my-proj alone. A body that is no JSON ends with InvalidArgument.
C8_EmptyBodyIsNoError ==
  /\ (req.body.kind = "empty" /\ steps = <<"reader", "decode">>) =>
       (route \in BodyRoutes /\ pc = "request" /\ err = Nil /\ protoReq = ZeroReq)
  /\ req.body.kind = "empty" => err.origin \notin {"reader", "decode", "mask", "path"}
  /\ (req.body.kind = "empty" /\ req.query = NoQuery /\ pc \in {"await", "respond", "done"}) =>
       Len(calls) = 1
  /\ (Len(calls) = 1 /\ route = "UndeleteProject" /\ req.body.kind = "empty"
      /\ req.segs = MyProj) => calls[1].req = [ZeroReq EXCEPT !.name = "projects/my-proj"]
  /\ (req.body.kind = "malformed" /\ "decode" \in Range(steps)) =>
       (err = InvalidArgument("decode") /\ calls = <<>>)

C8_Witness ==
  /\ pc = "done" /\ route = "UndeleteProject" /\ req.body.kind = "empty"
  /\ req.segs = MyProj /\ Len(calls) = 1
  /\ calls[1].req = [ZeroReq EXCEPT !.name = "projects/my-proj"]

LastRaw == IF req.suffix = "" THEN req.segs[Len(req.segs)]
           ELSE req.segs[Len(req.segs)] \o ":" \o req.suffix

\* the path has the literal segments v1 and projects, one more segment for the
\* wildcard when the pattern has one, and the verb of the pattern
ShapeOf(i) ==
  LET pat == RouteTable[i].pat
  IN IF RouteTable[i].op \in {"ListProjects", "CreateProject"}
     THEN req.segs = <<"v1", "projects">> /\ req.suffix = ""
     ELSE /\ Len(req.segs) = 3
          /\ req.segs[1] = "v1"
          /\ req.segs[2] = "projects"
          /\ pat.verb # "" => req.suffix = pat.verb

\* C10: when the mux has taken a request (the path does not change after
\* that), each of the six patterns matches its path exactly when the path has the
\* shape of the pattern (a pattern without a verb takes the whole last segment
\* as its wildcard), the capture is then "projects/" and the text the wildcard
\* matched, and GET /v1/projects/my-proj is GetProject with name =
\* projects/my-proj.
C10_MatchIffShape ==
  /\ (pc = "handler" \/ (pc = "done" /\ route = "none")) =>
      \A i \in 1..Len(RouteTable) :
         LET pat == RouteTable[i].pat
             m == Match(pat, req.segs, req.suffix)
         IN /\ m.ok <=> ShapeOf(i)
            /\ (m.ok /\ Len(pat.pool) = 3) =>
                 m.params = (pat.pool[3] :>
                    ("projects/" \o (IF pat.verb = "" THEN LastRaw ELSE req.segs[3])))
            /\ (m.ok /\ Len(pat.pool) = 2) => DOMAIN m.params = {}
  /\ (pc # "idle" /\ req.method = "GET" /\ req.segs = MyProj /\ req.suffix = "") =>
       (route = "GetProject" /\ pathParams = ("name" :> "projects/my-proj"))

C10_Witness ==
  /\ pc = "handler" /\ req.method = "GET" /\ req.segs = MyProj /\ req.suffix = ""
  /\ route = "GetProject" /\ pathParams["name"] = "projects/my-proj"

\* C20: on Update the decoder and the mask deriver each get a reader of their
\* own over the whole body, placed at its start, and each reads the body that
\* was sent: the project is the one that body decodes to and the mask is the
\* one that body gives. On every route a reader handed out reads the whole
\* body.
C20_BodyReadTwice ==
  /\ \A i \in DOMAIN readers : readers[i].pos = "start" /\ readers[i].read = req.body
  /\ (route = "UpdateProject" /\ "mask" \in Range(steps)) =>
       /\ Len(readers) = 2
       /\ readers[1].by = "decode" /\ readers[2].by = "mask"
       /\ readers[1].read = readers[2].read
  /\ (route = "UpdateProject" /\ steps = <<"reader", "decode", "mask">> /\ err = Nil) =>
       /\ protoReq.update_mask = FieldMaskFromRequestBody(req.body)
       /\ protoReq.project = Decode("project", ZeroReq, req.body).req.project

C20_Witness ==
  /\ route = "UpdateProject" /\ steps = <<"reader", "decode", "mask">> /\ err = Nil
  /\ req.body = TitleBody
  /\ Len(readers) = 2 /\ readers[2].read = TitleBody
  /\ protoReq.update_mask = <<"title">> /\ protoReq.project.title = "New"

\* the rows of the error mapper's table, as the specification of the encoder
\* gives them
StatusTable ==
  [InvalidArgument |-> 400, NotFound |-> 404, AlreadyExists |-> 409,
   PermissionDenied |-> 403, Unauthenticated |-> 401, ResourceExhausted |-> 429,
   Unimplemented |-> 501, Internal |-> 500, Unknown |-> 500]

C13_ServiceFailureUnchanged ==
  \A i \in DOMAIN calls :
    calls[i].result # Pending =>
      /\ err = IF calls[i].result.code = "OK" THEN Nil
               ELSE [code |-> calls[i].result.code, origin |-> "service"]
      /\ pc \in {"respond", "done"}
      /\ pc = "done" =>
           /\ Len(out) = 1
           /\ out[1].kind = (IF calls[i].result.code = "OK" THEN "success" ELSE "error")
           /\ out[1].code = calls[i].result.code
           /\ out[1].origin = "service"

C13_Witness ==
  /\ pc = "done" /\ Len(calls) = 1 /\ calls[1].result.code = "AlreadyExists"
  /\ Len(out) = 1 /\ out[1].kind = "error" /\ out[1].code = "AlreadyExists"
  /\ out[1].origin = "service" /\ out[1].status = 409

\* C15: while a service operation has not returned, the context it was called
\* with is done whenever the inbound request's context is, in both modes.
C15_CallContextFollowsInbound ==
  \A i \in DOMAIN calls :
    (calls[i].result = Pending /\ inbound) => Done(calls[i].ctx)

C15_Witness ==
  /\ pc = "await" /\ req.mode = "local" /\ inbound /\ ~cancelled
  /\ calls[1].result = Pending /\ Done(calls[1].ctx)

\* C16 (as claimed): once the inbound request is cancelled while the service
\* operation is in flight, the handler stops waiting for the operation: it can
\* go on without the operation's return.
C16_StopsWaiting ==
  (pc = "await" /\ inbound) => ENABLED AbandonCall

\* C16 (amended): with the inbound request cancelled while the operation is in
\* flight, a client call returns without the operation's reply and the
\* handler finishes; a server call is left only by the operation's return; no
\* step but the operation's own return changes a call that was made, and a
\* call that was made stays on record; a handler that finished has run its
\* cancel, so the call's context is done.
C16_ReleasesWithoutKilling ==
  /\ []((pc = "await" /\ inbound /\ req.mode = "remote") => ENABLED AbandonCall)
  /\ [][(pc = "await" /\ req.mode = "local" /\ pc' # "await") =>
          calls'[Len(calls')].result # Pending]_vars
  /\ [][\A i \in DOMAIN calls :
          /\ i \in DOMAIN calls'
          /\ calls'[i] # calls[i] =>
                (ServiceReturn /\ calls[i].result = Pending
                 /\ calls'[i] = [calls[i] EXCEPT !.result = calls'[i].result])]_vars
  /\ []((pc = "done" /\ route # "none") =>
          (cancelled /\ \A i \in DOMAIN calls : Done(calls[i].ctx)))
  /\ ((pc = "await" /\ inbound /\ req.mode = "remote") ~> (pc = "done" /\ cancelled))
  /\ (pc = "respond" ~> (pc = "done" /\ cancelled))

C16_Witness ==
  /\ pc = "done" /\ req.mode = "remote" /\ inbound /\ cancelled
  /\ err = [code |-> "Canceled", origin |-> "client"]
  /\ Len(calls) = 1 /\ calls[1].result = Pending

\* C17: the response written after the request function returned was encoded
\* with a context that carries server metadata, and that metadata holds, per
\* key, the header and trailer values the service call set, on the success and
\* on the failure path, in both modes.
C17_MetadataAttached ==
  (pc = "done" /\ route # "none" /\ out[1].origin # "annotate") =>
     /\ out[1].md.attached
     /\ \A i \in DOMAIN calls :
          calls[i].result # Pending =>
            /\ out[1].md.HeaderMD = metadata_Join(NoMD, calls[i].result.header)
            /\ out[1].md.TrailerMD = metadata_Join(NoMD, calls[i].result.trailer)

C17_Witness ==
  /\ pc = "done" /\ req.mode = "local" /\ err.code = "NotFound"
  /\ Len(calls) = 1 /\ calls[1].result.header = HeaderOfService
  /\ out[1].kind = "error" /\ out[1].md.attached
  /\ out[1].md.HeaderMD = HeaderOfService /\ out[1].md.TrailerMD = TrailerOfService

\* C18: the service operation is invoked at most once for a request, and
\* exactly once when the annotation and every binding step succeeded, whatever
\* the operation returns.
C18_InvokedAtMostOnce ==
  /\ Len(calls) <= 1
  /\ pc \in {"await", "respond", "done"} =>
       (Len(calls) = 1 <=>
          (route # "none" /\ context.annotatedContext # "none"
           /\ err.origin \notin BindingSteps))
  /\ (pc = "done" /\ Len(calls) = 1) => calls[1].result # Pending

C18_Witness ==
  /\ pc = "done" /\ route = "CreateProject" /\ req.mode = "remote"
  /\ Len(calls) = 1 /\ calls[1].result.code = "Internal" /\ out[1].kind = "error"

\* the request function of the state has just returned, or is at its call
Bound ==
  /\ route # "none" /\ context.annotatedContext # "none"
  /\ pc = "await" \/ (pc = "respond" /\ calls = <<>>)

\* C14: for the request of every state whose request function returns, the
\* server-side and the client-side function, run on that request's captures,
\* body and query string, give the same result whichever way the mask
\* derivation answers: the same InvalidArgument failure from the same statement
\* and no call, or a call with equal typed requests; and the function the
\* handler did run gave that result.
C14_ModesBindAlike ==
  Bound =>
    /\ \A f \in BOOLEAN :
         Bind(route, "local", pathParams, req.body, req.query, f)
           = Bind(route, "remote", pathParams, req.body, req.query, f)
    /\ LET b == Bind(route, req.mode, pathParams, req.body, req.query, err.origin = "mask")
       IN /\ b.invoked <=> Len(calls) = 1
          /\ b.invoked => (calls[1].req = b.protoReq /\ calls[1].op = route)
          /\ ~b.invoked => (err = b.err /\ err.code = "InvalidArgument")

C14_Witness ==
  /\ Bound /\ route = "UpdateProject" /\ req.mode = "local" /\ Len(calls) = 1
  /\ req.body = TitleBody /\ ExplicitMask
  /\ calls[1].req = Bind(route, "remote", pathParams, req.body, req.query, FALSE).protoReq
  /\ calls[1].req.update_mask = <<"title", "owner">>

\* What handling a request alone gives: the route the table has for it, the
\* typed request its request function builds, the call made, the response.
Alone(r) ==
  IF MatchingRoutes(r.method, r.segs, r.suffix) = {}
  THEN [route |-> "none", protoReq |-> ZeroReq, call |-> <<>>,
        out |-> <<Response("error", "NotFound", "mux", NoServerMetadata)>>]
  ELSE LET e == RouteTable[FirstRoute(RouteTable, r)]
           b == Bind(e.op, r.mode, Match(e.pat, r.segs, r.suffix).params,
                     r.body, r.query, r.derivFails)
       IN [route |-> e.op, protoReq |-> b.protoReq,
           call |-> IF b.invoked THEN <<[op |-> e.op, req |-> b.protoReq]>> ELSE <<>>,
           out |-> <<IF ~b.invoked
                       THEN Response("error", b.err.code, b.err.origin, EmptyServerMetadata)
                     ELSE IF r.result = "OK"
                       THEN Response("success", "OK", "service", EmptyServerMetadata)
                     ELSE Response("error", r.result, "service", EmptyServerMetadata)>>]

\* C19: with several requests in flight and their statements interleaved in
\* any order, every request whose request function is through has the route,
\* the typed request and the service call it has when handled alone, every
\* finished request has the response it has when handled alone, and the
\* route table is the one that was registered.
C19_NoSharedMutableState ==
  /\ table = RouteTable
  /\ \A i \in DOMAIN inflight :
       LET h == inflight[i]
           a == Alone(h.in)
       IN /\ h.route = a.route
          /\ h.pc \in {"await", "respond", "done"} =>
               (h.b.protoReq = a.protoReq /\ h.call = a.call)
          /\ h.pc = "done" => h.out = a.out
          /\ h.pc # "done" => h.out = <<>>

C19_Witness ==
  /\ Len(inflight) = 2
  /\ inflight[1].pc = "await" /\ inflight[2].pc = "await"
  /\ inflight[1].route = "UpdateProject" /\ inflight[2].route = "UpdateProject"
  /\ inflight[1].in.mode = "local" /\ inflight[2].in.mode = "remote"
  /\ inflight[1].call[1].req.project.name = "projects/my-proj"
  /\ inflight[1].call[1].req.update_mask = <<"title">>
  /\ inflight[2].call[1].req.project.name = "projects/other"
  /\ inflight[2].call[1].req.update_mask = <<"title", "owner">>

\* C21: a Get or a Delete always reaches its call, with the typed request
\* that has the capture of the path as its name and every other field at its
\* zero value, whatever query string the request has; and the request
\* function gives that same typed request for every body the request may
\* carry.
C21_PathAloneDecides ==
  (Bound /\ route \in {"GetProject", "DeleteProject"}) =>
    /\ Len(calls) = 1
    /\ calls[1].req = [ZeroReq EXCEPT !.name = pathParams["name"]]
    /\ \A b \in Inputs(env).bodies :
         LET r == Bind(route, req.mode, pathParams, b, req.query, FALSE)
         IN r.invoked /\ r.protoReq = calls[1].req

C21_Witness ==
  /\ Bound /\ route = "DeleteProject" /\ req.segs = MyProj /\ req.mode = "remote"
  /\ Param(<<"project", "name">>, <<"projects/evil">>) \in req.query.params
  /\ calls[1].req = [ZeroReq EXCEPT !.name = "projects/my-proj"]

\* the routes of the table that take the request of the state
Hits == MatchingRoutes(req.method, req.segs, req.suffix)

\* C28: for every method and path the mux has taken, at most one of the six
\* routes matches, and the route that handles the request is that one: the
\* last match of the table is the first, so the order of registration does
\* not decide the operation.
C28_TableUnambiguous ==
  (pc = "handler" \/ (pc = "done" /\ route = "none")) =>
    /\ Cardinality(Hits) <= 1
    /\ route = "none" <=> Hits = {}
    /\ \A h \in Hits : RouteTable[h].op = route

C28_Witness ==
  /\ pc = "handler" /\ req.method = "POST" /\ req.segs = MyProj /\ req.suffix = "undelete"
  /\ route = "UndeleteProject" /\ Cardinality(Hits) = 1

\* the query string of the state without the parameters that name no field
KnownOnly ==
  [kind |-> "ok", params |-> {q \in req.query.params : ~NamesNoField(route, q.path)}]

\* C23: on List, Create and Update the request function gives what it gives
\* for the same request without the query parameters that name no field of
\* the request: the same call with the same typed request, or the same
\* failure; a query string of such parameters alone never fails the query
\* binding. A path binding that fails ends the function with InvalidArgument
\* and no call, as the function of every route with a path parameter does
\* when the parameter is missing.
C23_StrayQueryIgnored ==
  /\ (Bound /\ route \in {"ListProjects", "CreateProject", "UpdateProject"}
       /\ req.query.kind = "ok") =>
       LET a == Bind(route, req.mode, pathParams, req.body, KnownOnly, err.origin = "mask")
       IN /\ a.invoked <=> Len(calls) = 1
          /\ a.invoked => calls[1].req = a.protoReq
          /\ ~a.invoked => err = a.err
          /\ KnownOnly.params = {} => err.origin # "query"
  /\ err.origin = "path" => (err.code = "InvalidArgument" /\ calls = <<>>)
  /\ (Bound /\ "path" \in Range(RequestFunc(route, req.mode))) =>
       LET m == Bind(route, req.mode, <<>>, req.body, req.query, FALSE)
       IN ~m.invoked /\ m.err.code = "InvalidArgument"

C23_Witness ==
  /\ Bound /\ route = "ListProjects" /\ Len(calls) = 1
  /\ req.query.params = {Param(<<"bogus">>, <<"x">>)}
  /\ calls[1].req = ZeroReq

\* C25: a connection is closed at most once; after a dial that failed the
\* error is the result, no route was registered and there is no connection
\* to close; a connection is closed only after the function returned, and
\* then either registration gave an error or ctx is done; while registration
\* succeeded and ctx is not done the connection stays open; and once the
\* function has returned without error and ctx is done the connection is
\* eventually closed, by exactly one conn.Close.
C25_ClosedWhenCtxDone ==
  /\ [](\A k \in 1..MaxEndpoints :
         LET e == endpoints[k]
         IN /\ e.closes <= 1
            /\ e.conn = "closed" <=> e.closes = 1
            /\ e.err = "dial" =>
                 (e.pc = "returned" /\ e.conn = "none" /\ e.registered = 0
                  /\ e.goroutine = "none")
            /\ e.conn = "closed" => (e.pc = "returned" /\ (e.err # "nil" \/ e.ctxDone))
            /\ (e.pc = "returned" /\ e.err = "nil" /\ ~e.ctxDone) =>
                 (e.conn = "open" /\ e.registered = Len(RouteTable)))
  /\ \A k \in 1..MaxEndpoints :
       (endpoints[k].pc = "returned" /\ endpoints[k].err = "nil" /\ endpoints[k].ctxDone)
         ~> (endpoints[k].conn = "closed" /\ endpoints[k].closes = 1)

C25_Witness ==
  /\ endpoints[1].conn = "closed" /\ endpoints[1].closes = 1 /\ endpoints[1].ctxDone
  /\ endpoints[1].err = "nil" /\ endpoints[1].registered = Len(RouteTable)
  /\ endpoints[2].err = "dial" /\ endpoints[2].conn = "none"

C27_CancelOnEveryExit ==
  (pc = "done" /\ route # "none") => (cancelled /\ Done("ctx"))

C27_Witness ==
  /\ pc = "done" /\ route = "GetProject" /\ req.mode = "local"
  /\ out[1].origin = "annotate" /\ ~inbound /\ cancelled

\* the ids of the elements of a list
Ids(list) == {list[i].id : i \in DOMAIN list}

\* C29: in the list convertSchemaMetadataList returns, every foreign key has
\* the id of the table that holds it as tableId, the id of a schema of the
\* list as referencedSchemaId and the id of a table of that schema as
\* referencedTableId; its column ids are ids of columns of the holding table
\* and its referenced column ids are ids of columns of the referenced table;
\* it was built from a key of the metadata of a table of that name whose
\* referenced schema and table have the names of the ones it refers to, with
\* one id per column name the table has; and no key that refers to a schema
\* or a table that is not in the list is in it.
C29_ForeignKeysSound ==
  editor.pc = "list" =>
    LET L == editor.schemaList
        M == editor.schemaMetadataList
    IN \A s \in DOMAIN L : \A t \in DOMAIN L[s].tableList :
         LET T == L[s].tableList[t]
         IN \A f \in DOMAIN T.foreignKeyList :
              LET fk == T.foreignKeyList[f]
              IN /\ fk.tableId = T.id
                 /\ Range(fk.columnIdList) \subseteq Ids(T.columnList)
                 /\ fk.name \notin {"fk_gone", "fk_ghost"}
                 /\ \E rs \in DOMAIN L : \E rt \in DOMAIN L[rs].tableList :
                      LET R == L[rs].tableList[rt]
                      IN /\ L[rs].id = fk.referencedSchemaId
                         /\ R.id = fk.referencedTableId
                         /\ Range(fk.referencedColumnIdList) \subseteq Ids(R.columnList)
                         /\ \E i \in DOMAIN M : \E j \in DOMAIN M[i].tables :
                              \E k \in DOMAIN M[i].tables[j].foreignKeys :
                                LET m == M[i].tables[j].foreignKeys[k]
                                IN /\ M[i].name = L[s].name
                                   /\ M[i].tables[j].name = T.name
                                   /\ m.name = fk.name
                                   /\ m.referencedSchema = L[rs].name
                                   /\ m.referencedTable = R.name
                                   /\ fk.columnIdList = IdsOf(T.columnList, m.columns)
                                   /\ fk.referencedColumnIdList
                                        = IdsOf(R.columnList, m.referencedColumns)

C29_Witness ==
  /\ editor.pc = "list"
  /\ editor.schemaMetadataList[1].name = "public"
  /\ editor.schemaMetadataList[2].name = "x"
  /\ Len(editor.schemaList[1].tableList) = 2
  /\ editor.schemaList[1].tableList[1].name = "t"
  /\ editor.schemaList[1].tableList[2].name = "u"
  /\ editor.schemaList[2].tableList = <<>>
  /\ Len(editor.schemaList[1].tableList[2].foreignKeyList) = 1
  /\ LET fk == editor.schemaList[1].tableList[2].foreignKeyList[1]
     IN /\ fk.name = "fk_t"
        /\ fk.tableId = editor.schemaList[1].tableList[2].id
        /\ fk.referencedTableId = editor.schemaList[1].tableList[1].id
        /\ Len(fk.columnIdList) = 1 /\ Len(fk.referencedColumnIdList) = 1

\* the places of the tables of a schema metadata that are no ghost tables
NonGhost(schemaMetadata) ==
  {j \in DOMAIN schemaMetadata.tables : ~isGhostTable(schemaMetadata.tables[j])}

\* The converted schema S has exactly the tables of the metadata sm that are
\* no ghost tables, in their order, each with the status st on it and on its
\* columns, and with the primary key of the first index marked primary.
ConvertedFrom(S, sm, st) ==
  /\ S.name = sm.name /\ S.status = st
  /\ Len(S.tableList) = Cardinality(NonGhost(sm))
  /\ \A t \in DOMAIN S.tableList :
       LET T == S.tableList[t]
           j == T.id[Len(T.id)]
           tm == sm.tables[j]
           P == {n \in DOMAIN tm.indexes : tm.indexes[n].primary}
       IN /\ j \in NonGhost(sm)
          /\ Cardinality({i \in NonGhost(sm) : i <= j}) = t
          /\ T.name = tm.name /\ T.status = st
          /\ Len(T.columnList) = Len(tm.columns)
          /\ \A c \in DOMAIN T.columnList :
               T.columnList[c].name = tm.columns[c].name /\ T.columnList[c].status = st
          /\ Range(T.primaryKey.columnIdList) \subseteq Ids(T.columnList)
          /\ P = {} => T.primaryKey = [name |-> "", columnIdList |-> <<>>]
          /\ P # {} =>
               LET n == CHOOSE n \in P : \A m \in P : n <= m
               IN /\ T.primaryKey.name = tm.indexes[n].name
                  /\ T.primaryKey.columnIdList = IdsOf(T.columnList, tm.indexes[n].expressions)

\* C30: the schema convertSchemaMetadataToSchema returns is converted from
\* its metadata with the status given, and so is, with the status normal,
\* every schema of the list convertSchemaMetadataList works on; no table of a
\* converted schema comes from a ghost table.
C30_NonGhostTablesInOrder ==
  /\ editor.pc = "schema" =>
       ConvertedFrom(editor.schema, editor.schemaMetadataList[editor.which], editor.status)
  /\ editor.pc \in {"composed", "list"} =>
       \A i \in DOMAIN editor.schemaList :
         ConvertedFrom(editor.schemaList[i], editor.schemaMetadataList[i], "normal")

C30_Witness ==
  /\ editor.pc = "schema" /\ editor.status = "dropped"
  /\ Len(editor.schemaMetadataList[editor.which].tables) = 2
  /\ isGhostTable(editor.schemaMetadataList[editor.which].tables[1])
  /\ Len(editor.schema.tableList) = 1
  /\ editor.schema.tableList[1].name = "t"
  /\ editor.schema.tableList[1].status = "dropped"
  /\ editor.schema.tableList[1].primaryKey.name = "pk"
  /\ Len(editor.schema.tableList[1].primaryKey.columnIdList) = 1
  /\ Len(editor.schema.tableList[1].columnList) = 2
  /\ editor.schema.tableList[1].columnList[1].name = "id"

====
